---- MODULE Spec2Model ----
(***************************************************************************)
(* A model of aish (src/src/shell.rs, src/src/parser.rs,                   *)
(* src/src/builtins.rs): the driving loops of the shell with its table of  *)
(* background jobs, the tokenizer, the parser and the variable expander.   *)
(*                                                                         *)
(* Strings are sequences of one-character strings: "ab" is <<"a", "b">>.   *)
(***************************************************************************)
EXTENDS Integers, Sequences, FiniteSets, TLC

\* ------------------------------------------------------------- bounds
\* number of background processes a run may spawn
MaxJobs == 3
\* length of the lines given to tokenize
MaxLineLen == 5
\* number of words in the lines given to parse
MaxWords == 4
\* length of the tokens given to expand_variables
MaxTokenLen == 5
\* number of builtin calls and expansions in a run of the environment
MaxCalls == 2

VARIABLES
    \* ---- the shell and its driving loop (shell.rs)
    mode,             \* which entry point main() called
    pc,               \* the position of the control thread in that entry point
    ret,              \* the io::Result the entry point returned
    background_jobs,  \* Shell.background_jobs: Vec<Child>
    exit_requested,   \* Shell.exit_requested
    \* ---- the operating system, as the shell sees it
    procs,            \* pid -> "none" | "running" | "exited" | "reaped"
    done_printed,     \* pid -> number of "[pid] Done" lines printed
    try_wait_err,     \* pids whose Child::try_wait returned Err
    kill_called,      \* pids on which Child::kill was called
    wait_called,      \* pids on which the blocking Child::wait was called
    os_env,           \* the environment of the process: std::env::var reads it
    \* ---- one call of the parser (parser.rs)
    call_input,       \* the argument of parse, of tokenize or of expand_variables
    ppc,              \* how far the call is
    tk,               \* the locals of tokenize
    parse_result,     \* what parse returned
    expanded,         \* what expand_variables returned
    \* ---- the environment and the builtins that write it (shell.rs, builtins.rs)
    env_vars,         \* Shell.env_vars: HashMap<String, String>
    cwd,              \* the working directory of the process
    last_call,        \* the last call of export, unset, cd or expand_variables
    ncalls,           \* how many such calls were made
    \* ---- what a driving loop and execute_line leave behind
    announced,        \* the "[display_id] pid" lines printed, in order
    last_line,        \* execute_line's result for the last line, and its report
    last_exec,        \* one call of execute_simple_command, with what it did
    pl                \* one call of execute_pipeline: its locals and what it did

shellVars == <<mode, pc, ret, background_jobs, exit_requested>>
osVars == <<procs, done_printed, try_wait_err, kill_called, wait_called>>
parserVars == <<os_env, call_input, ppc, tk, parse_result, expanded>>
builtinVars == <<env_vars, cwd, last_call, ncalls>>
logVars == <<announced, last_line>>
vars == <<shellVars, osVars, parserVars, builtinVars, logVars, last_exec, pl>>

\* what the driving loops leave alone, and what the calls of the parser do
offShell == <<parserVars, builtinVars, last_exec, pl>>
offParser == <<builtinVars, logVars, last_exec, pl>>

Pids == 1..MaxJobs

Range(s) == {s[i] : i \in 1..Len(s)}

JobPids(jobs) == {jobs[i].pid : i \in 1..Len(jobs)}

Min(a, b) == IF a < b THEN a ELSE b

\* -------------------------------------------------- parser.rs: tokenize
DQ == "\""
SQ == "'"
BS == "\\"
TAB == "\t"
QuoteChars == {DQ, SQ}
Whitespace == {" ", TAB}
OperatorChars == {"|", "&", "<", ">"}

\* the locals of tokenize before the loop; i is the place of chars.next()
TokInit ==
    [tokens |-> <<>>, current_token |-> <<>>, in_quotes |-> FALSE,
     quote_char |-> " ", i |-> 1]

\* if !current_token.is_empty() { tokens.push(current_token); clear }
Flush(st) ==
    IF st.current_token # <<>>
    THEN [st EXCEPT !.tokens = Append(@, st.current_token), !.current_token = <<>>]
    ELSE st

\* the guards of the match arms, in the order of the match

\* a tokenizer that opens no region
opens_quote_never(ch, st) == FALSE

opens_quote(ch, st) == ch \in QuoteChars /\ ~st.in_quotes

\* an arm that closes a region at a quote of either kind
closes_quote_anyKind(ch, st) == ch \in QuoteChars /\ st.in_quotes

closes_quote(ch, st) == ch \in QuoteChars /\ st.in_quotes /\ ch = st.quote_char

\* an arm that forgets `if !in_quotes`
is_separator_anywhere(ch, st) == ch \in Whitespace

is_separator(ch, st) == ch \in Whitespace /\ ~st.in_quotes
is_operator(ch, st) == ch \in OperatorChars /\ ~st.in_quotes

\* an arm that escapes inside quotes as well
is_escape_anywhere(ch, st) == ch = BS

is_escape(ch, st) == ch = BS /\ ~st.in_quotes

\* one iteration of `while let Some(ch) = chars.next()`
TokStep(st, input) ==
    LET ch == input[st.i]
        has_next == st.i + 1 <= Len(input)
    IN  IF opens_quote(ch, st)
        THEN [st EXCEPT !.in_quotes = TRUE, !.quote_char = ch, !.i = @ + 1]
        ELSE IF closes_quote(ch, st)
        THEN [st EXCEPT !.in_quotes = FALSE, !.quote_char = " ", !.i = @ + 1]
        ELSE IF is_separator(ch, st)
        THEN [Flush(st) EXCEPT !.i = @ + 1]
        ELSE IF is_operator(ch, st)
        THEN (IF ch = ">" /\ has_next /\ input[st.i + 1] = ">"
              THEN [Flush(st) EXCEPT !.tokens = Append(@, <<">", ">">>), !.i = @ + 2]
              ELSE [Flush(st) EXCEPT !.tokens = Append(@, <<ch>>), !.i = @ + 1])
        ELSE IF is_escape(ch, st)
        THEN (IF has_next
              THEN [st EXCEPT !.current_token = Append(@, input[st.i + 1]), !.i = @ + 2]
              ELSE [st EXCEPT !.i = @ + 1])
        ELSE [st EXCEPT !.current_token = Append(@, ch), !.i = @ + 1]

\* the loop, and the push of the last token after it
RECURSIVE TokRun(_, _)
TokRun(st, input) ==
    IF st.i > Len(input) THEN Flush(st).tokens ELSE TokRun(TokStep(st, input), input)

\* Parser::tokenize
tokenize(input) == TokRun(TokInit, input)

\* ------------------------------------------ parser.rs: expand_variables
Letters ==
    {"a", "b", "c", "d", "e", "f", "g", "h", "i", "j", "k", "l", "m", "n", "o", "p",
     "q", "r", "s", "t", "u", "v", "w", "x", "y", "z", "A", "B", "C", "D", "E", "F",
     "G", "H", "I", "J", "K", "L", "M", "N", "O", "P", "Q", "R", "S", "T", "U", "V",
     "W", "X", "Y", "Z"}
Digits == {"0", "1", "2", "3", "4", "5", "6", "7", "8", "9"}

\* ch.is_alphanumeric() || ch == '_'
is_name_char(ch) == ch \in Letters \/ ch \in Digits \/ ch = "_"

\* if let Ok(value) = std::env::var(&var_name) { result.push_str(&value) }
env_value(name, env) == IF name \in DOMAIN env THEN env[name] ELSE <<>>

\* the place of the first "}" at or after i, or Len(token) + 1 without one
RECURSIVE brace_end(_, _)
brace_end(token, i) ==
    IF i > Len(token) \/ token[i] = "}" THEN i ELSE brace_end(token, i + 1)

\* the place after the run of name characters that starts at i
RECURSIVE name_end(_, _)
name_end(token, i) ==
    IF i <= Len(token) /\ is_name_char(token[i]) THEN name_end(token, i + 1) ELSE i

\* what `$` without a name after it adds to the result
bare_dollar == <<"$">>

\* a loop that leaves the closing "}" in the input
after_brace_keepsBrace(token, e) == e

\* where the loop goes on after ${NAME: behind the "}" that closed it
after_brace(token, e) == e + 1

\* the loop of expand_variables from place i on, result being what is built
RECURSIVE expand_from(_, _, _, _)
expand_from(token, i, result, env) ==
    IF i > Len(token) THEN result
    ELSE IF token[i] = "$"
    THEN IF i + 1 <= Len(token) /\ token[i + 1] = "{"
         THEN LET e == brace_end(token, i + 2)
                  var_name == SubSeq(token, i + 2, e - 1)
              IN  expand_from(token, after_brace(token, e),
                              result \o env_value(var_name, env), env)
         ELSE LET e == name_end(token, i + 1)
                  var_name == SubSeq(token, i + 1, e - 1)
              IN  IF var_name # <<>>
                  THEN expand_from(token, e, result \o env_value(var_name, env), env)
                  ELSE expand_from(token, e, result \o bare_dollar, env)
    ELSE expand_from(token, i + 1, Append(result, token[i]), env)

\* Parser::expand_variables, env being the environment of the process
expand_variables(token, env) == expand_from(token, 1, <<>>, env)

\* ------------------------------------------------- parser.rs: the parser
PIPE == <<"|">>
AMP == <<"&">>
LT == <<"<">>
GT == <<">">>
GTGT == <<">", ">">>

ParseErr(e) == [ok |-> FALSE, kind |-> "-", commands |-> <<>>, err |-> e]
ParseOk(k, cmds) == [ok |-> TRUE, kind |-> k, commands |-> cmds, err |-> "-"]

SimpleCommand(a, r) == [args |-> a, redirections |-> r]
Redirection(t, f) == [redir_type |-> t, filename |-> f]

\* the redirection type of an operator token
redir_type_of(token) ==
    IF token = LT THEN "Input" ELSE IF token = GT THEN "Output" ELSE "Append"

\* a pipeline loop that accepts an empty group
empty_group_is_error_never(current_args) == FALSE

\* `if current_args.is_empty()` at a "|" and after the loop
empty_group_is_error(current_args) == current_args = <<>>

\* a pipeline that makes a redirection of an operator among the arguments
stage_redirections_parsed(current_args) ==
    IF Range(current_args) \cap {LT, GT, GTGT} # {}
    THEN <<Redirection("Output", <<>>)>>
    ELSE <<>>

\* `redirections: Vec::new()` of each stage
stage_redirections(current_args) == <<>>

\* the loop of parse_pipeline from token i on
RECURSIVE pipeline_from(_, _, _, _)
pipeline_from(tokens, i, commands, current_args) ==
    IF i > Len(tokens)
    THEN IF empty_group_is_error(current_args)
         THEN ParseErr("InvalidSyntax")
         ELSE ParseOk("Pipeline",
                      Append(commands,
                             SimpleCommand(current_args, stage_redirections(current_args))))
    ELSE IF tokens[i] = PIPE
    THEN IF empty_group_is_error(current_args)
         THEN ParseErr("InvalidSyntax")
         ELSE pipeline_from(tokens, i + 1,
                            Append(commands,
                                   SimpleCommand(current_args,
                                                 stage_redirections(current_args))),
                            <<>>)
    ELSE pipeline_from(tokens, i + 1, commands, Append(current_args, tokens[i]))

\* Parser::parse_pipeline
parse_pipeline(tokens) == pipeline_from(tokens, 1, <<>>, <<>>)

\* an end of parse_simple_command without the check for empty args
simple_command_end_noCheck(args, redirections) ==
    [err |-> "-", cmd |-> SimpleCommand(args, redirections)]

\* `if args.is_empty() { return Err(EmptyCommand) }` and the Ok after it
simple_command_end(args, redirections) ==
    IF args = <<>>
    THEN [err |-> "EmptyCommand", cmd |-> SimpleCommand(<<>>, <<>>)]
    ELSE [err |-> "-", cmd |-> SimpleCommand(args, redirections)]

\* a bounds check that is off by one: the last token is never a filename
filename_is_missing_offByOne(tokens, position) == position >= Len(tokens)

\* `if self.position >= self.tokens.len() { return Err(MissingFilename) }`
filename_is_missing(tokens, position) == position > Len(tokens)

\* a push that leaves out an argument whose expansion is empty
push_arg_skipEmpty(args, value) == IF value = <<>> THEN args ELSE Append(args, value)

\* `args.push(expanded)`: the expansion is one argument, whatever it holds
push_arg(args, value) == Append(args, value)

\* the loop of parse_simple_command from self.position on (counted from 1)
RECURSIVE simple_from(_, _, _, _, _)
simple_from(tokens, position, args, redirections, env) ==
    IF position > Len(tokens) THEN simple_command_end(args, redirections)
    ELSE IF tokens[position] \in {LT, GT, GTGT}
    THEN IF filename_is_missing(tokens, position + 1)
         THEN [err |-> "MissingFilename", cmd |-> SimpleCommand(<<>>, <<>>)]
         ELSE simple_from(tokens, position + 2, args,
                  Append(redirections,
                         Redirection(redir_type_of(tokens[position]), tokens[position + 1])),
                  env)
    ELSE simple_from(tokens, position + 1,
                     push_arg(args, expand_variables(tokens[position], env)),
                     redirections, env)

\* Parser::parse_simple_command
parse_simple_command(tokens, env) == simple_from(tokens, 1, <<>>, <<>>, env)

\* a pipeline branch that does not look at is_background
pipeline_branch_ignoresBackground(tokens, is_background) == parse_pipeline(tokens)

\* `if is_background { return Err(InvalidSyntax) } return self.parse_pipeline()`
pipeline_branch(tokens, is_background) ==
    IF is_background THEN ParseErr("InvalidSyntax") ELSE parse_pipeline(tokens)

\* parse after `self.tokens = self.tokenize(input)`
parse_tokens(all_tokens, env) ==
    IF all_tokens = <<>> THEN ParseErr("EmptyCommand")
    ELSE LET is_background == all_tokens[Len(all_tokens)] = AMP
             tokens == IF is_background
                       THEN SubSeq(all_tokens, 1, Len(all_tokens) - 1)
                       ELSE all_tokens
         IN  IF PIPE \in Range(tokens)
             THEN pipeline_branch(tokens, is_background)
             ELSE LET sc == parse_simple_command(tokens, env)
                  IN  IF sc.err # "-" THEN ParseErr(sc.err)
                      ELSE IF is_background
                      THEN ParseOk("Background", <<sc.cmd>>)
                      ELSE ParseOk("Simple", <<sc.cmd>>)

\* Parser::parse
parse(input, env) == parse_tokens(tokenize(input), env)

\* ------------------------------------------------------ builtins.rs: exit
\* args[0].parse::<i32>().unwrap_or(1), 0 without argument; "2147483648" is
\* the least number that an i32 does not hold
exit_code(arg) ==
    CASE arg = "none" -> 0
      [] arg = "0" -> 0
      [] arg = "1" -> 1
      [] OTHER -> 1

\* -------------------------------- shell.rs, builtins.rs: the environment
\* U+0000 and "=", which the environment of a process cannot hold in a name
NUL == "NUL"
EQ == "="

PATH == <<"P", "A", "T", "H">>
PS1 == <<"P", "S", "1">>
PWD == <<"P", "W", "D">>
HOME == <<"H", "O", "M", "E">>

\* "/usr/local/bin:/usr/bin:/bin", kept in one piece
DefaultPath == <<"/usr/local/bin:/usr/bin:/bin">>
DefaultPS1 == <<"a", "i", "s", "h", "$", " ">>

\* HashMap::insert and HashMap::remove, std::env::set_var and remove_var
map_insert(m, key, value) ==
    [n \in DOMAIN m \cup {key} |-> IF n = key THEN value ELSE m[n]]

map_remove(m, key) == [n \in DOMAIN m \ {key} |-> m[n]]

\* Shell::new: env_vars is a copy of env::vars(), with PATH and PS1 inserted
\* when the environment does not set them
new_env_vars(os) ==
    [n \in DOMAIN os \cup {PATH, PS1} |->
        IF n \in DOMAIN os THEN os[n]
        ELSE IF n = PATH THEN DefaultPath ELSE DefaultPS1]

set_env_var(m, key, value) == map_insert(m, key, value)

unset_env_var(m, key) == map_remove(m, key)

\* std::env::set_var and std::env::remove_var panic on a name that is empty or
\* holds "=" or U+0000, and set_var on a value that holds U+0000
bad_name(key) == key = <<>> \/ EQ \in Range(key) \/ NUL \in Range(key)

set_var_panics(key, value) == bad_name(key) \/ NUL \in Range(value)

remove_var_panics(key) == bad_name(key)

\* arg.find('='): the position of the first "=", 0 for None
find_eq(arg) ==
    IF EQ \in Range(arg)
    THEN CHOOSE i \in 1..Len(arg) : arg[i] = EQ /\ \A j \in 1..(i - 1) : arg[j] # EQ
    ELSE 0

\* a value that keeps the "=" of split_at
export_value_keepsEq(arg, pos) == SubSeq(arg, pos, Len(arg))

\* `let (key, value) = arg.split_at(pos); let value = &value[1..];`
export_value(arg, pos) == SubSeq(arg, pos + 1, Len(arg))

export_key(arg, pos) == SubSeq(arg, 1, pos - 1)

\* the two stores, what the builtin wrote to stderr, whether it panicked
EnvState(m, os, err, dead) ==
    [env_vars |-> m, os_env |-> os, stderr |-> err, panicked |-> dead]

\* an `export NAME` that hands the process environment an empty value
promoted_value_empty(m, arg) == <<>>

\* `if let Some(value) = shell.get_env_var(arg) { env::set_var(arg, value); }`
promoted_value(m, arg) == m[arg]

\* Builtins::export, the body of `for arg in args`
export_arg(st, arg) ==
    LET pos == find_eq(arg) IN
    IF pos > 0
    THEN LET key == export_key(arg, pos)
             value == export_value(arg, pos) IN
         [st EXCEPT !.env_vars = set_env_var(@, key, value),
                    !.os_env = IF set_var_panics(key, value) THEN @
                               ELSE map_insert(@, key, value),
                    !.panicked = set_var_panics(key, value)]
    ELSE IF arg \in DOMAIN st.env_vars
         THEN LET value == promoted_value(st.env_vars, arg) IN
              [st EXCEPT !.os_env = IF set_var_panics(arg, value) THEN @
                                    ELSE map_insert(@, arg, value),
                         !.panicked = set_var_panics(arg, value)]
         ELSE [st EXCEPT !.stderr = Append(@, arg)]

RECURSIVE export_from(_, _, _)
export_from(args, i, st) ==
    IF i > Len(args) \/ st.panicked THEN st
    ELSE export_from(args, i + 1, export_arg(st, args[i]))

\* Builtins::export; without arguments it prints the process environment
export(args, st) == export_from(args, 1, st)

\* an unset that removes the name from the map alone
unset_arg_mapOnly(st, arg) ==
    [st EXCEPT !.env_vars = unset_env_var(@, arg)]

\* Builtins::unset, the body of `for arg in args`
unset_arg(st, arg) ==
    [st EXCEPT !.env_vars = unset_env_var(@, arg),
               !.os_env = IF remove_var_panics(arg) THEN @ ELSE map_remove(@, arg),
               !.panicked = remove_var_panics(arg)]

RECURSIVE unset_from(_, _, _)
unset_from(args, i, st) ==
    IF i > Len(args) \/ st.panicked THEN st
    ELSE unset_from(args, i + 1, unset_arg(st, args[i]))

unset(args, st) == unset_from(args, 1, st)

\* env::var("HOME").unwrap_or_else(|_| "/".to_string())
home_dir(os) == IF HOME \in DOMAIN os THEN os[HOME] ELSE <<"/">>

\* a resolution that leaves "~" and "~/..." as they are written
new_dir_noTilde(path, os) == IF path = <<>> THEN home_dir(os) ELSE path

\* Shell::change_directory: the directory a path stands for
new_dir(path, os) ==
    IF path = <<>> \/ path = <<"~">> THEN home_dir(os)
    ELSE IF Len(path) >= 2 /\ SubSeq(path, 1, 2) = <<"~", "/">>
         THEN home_dir(os) \o <<"/">> \o SubSeq(path, 3, Len(path))
         ELSE path

\* Builtins::cd: args[0], or "" without arguments
cd_path(args) == IF args = <<>> THEN <<>> ELSE args[1]

\* ------------------------------------------------- shell.rs: job table
\* a closure that answers true for Ok(Some(_)) too
retain_job_keepsExited(res) == res # "err"

\* the closure of retain_mut: TRUE keeps the job
retain_job(res) == res = "none"

\* a closure that prints Done for every job it removes
prints_done_whenRemoved(res) == res # "none"

\* the closure prints "[pid] Done" for this outcome of try_wait
prints_done(res) == res = "some"

\* The outcomes Child::try_wait can have for every tracked job: Ok(Some(status))
\* for a process that has exited, Ok(None) for one that runs, Err for either.
TryWaitOutcomes(jobs, ps) ==
    {res \in [JobPids(jobs) -> {"some", "none", "err"}] :
        \A p \in JobPids(jobs) :
            /\ res[p] = "some" => ps[p] = "exited"
            /\ res[p] = "none" => ps[p] = "running"}

\* Shell::cleanup_background_jobs
cleanup_background_jobs(res) ==
    /\ background_jobs' = SelectSeq(background_jobs, LAMBDA j : retain_job(res[j.pid]))
    /\ done_printed' = [p \in Pids |->
          IF p \in JobPids(background_jobs) /\ prints_done(res[p])
          THEN Min(done_printed[p] + 1, 2) ELSE done_printed[p]]
    /\ procs' = [p \in Pids |->
          IF p \in JobPids(background_jobs) /\ res[p] = "some"
          THEN "reaped" ELSE procs[p]]
    /\ try_wait_err' = try_wait_err \cup
          {p \in JobPids(background_jobs) : res[p] = "err"}

\* the jobs on which the loop body of cleanup_all_jobs calls kill, and wait:
\* `let _ =` discards both results, so an Err of kill does not skip the wait
kill_targets(jobs, kerr) == JobPids(jobs)

\* a loop body that waits only after a kill that returned Ok
wait_targets_ifKilled(jobs, kerr) == JobPids(jobs) \ kerr

wait_targets(jobs, kerr) == JobPids(jobs)

\* Shell::cleanup_all_jobs: kerr and werr are the jobs whose kill and whose
\* blocking wait return Err. A wait that returns Ok has reaped the process (it
\* returns only once the process has exited); a kill that returns Ok has ended it.
cleanup_all_jobs(kerr, werr) ==
    /\ background_jobs' = <<>>
    /\ kill_called' = kill_called \cup kill_targets(background_jobs, kerr)
    /\ wait_called' = wait_called \cup wait_targets(background_jobs, kerr)
    /\ procs' = [p \in Pids |->
          IF p \in wait_targets(background_jobs, kerr) /\ p \notin werr
          THEN "reaped"
          ELSE IF p \in kill_targets(background_jobs, kerr) /\ p \notin kerr
                  /\ procs[p] = "running"
               THEN "exited"
               ELSE procs[p]]

\* ------------------------------------------- shell.rs: executing a line
\* What the driving loops hand to execute_line, by what Parser::parse makes of
\* it: a parse error, or a Simple or Background command whose args[0] is the
\* builtin exit or export (with its first argument) or an external program.
ExitArgs == {"none", "0", "1", "abc", "2147483648"}

ExportArgs == {"X=v", "=v"}

DriverLines ==
    {[parse |-> "Err", name |-> "-", arg |-> "none"]}
    \cup [parse : {"Simple"}, name : {"exit"}, arg : ExitArgs]
    \cup [parse : {"Background"}, name : {"exit"}, arg : {"none", "1"}]
    \cup [parse : {"Simple"}, name : {"export"}, arg : {"=v"}]
    \cup [parse : {"Simple", "Background"}, name : {"ext"}, arg : {"none"}]

\* the lines that call the operating system, and so can fail there
StartedFor(line) ==
    IF line.parse # "Err" /\ line.name \in {"cd", "ext"} THEN BOOLEAN ELSE {TRUE}

\* the text of an argument of export
ArgText(arg) == IF arg = "=v" THEN <<EQ, "v">> ELSE <<"X", EQ, "v">>

\* Builtins::execute: the handler a name selects, "none" for any other name
BuiltinNames ==
    {"exit", "cd", "pwd", "echo", "export", "unset", "env", "type", "help", "history"}

\* a registry that does not know cd
builtin_handler_withoutCd(name) ==
    IF name \in BuiltinNames \ {"cd"} THEN name ELSE "none"

builtin_handler(name) == IF name \in BuiltinNames THEN name ELSE "none"

\* what the handler of a builtin returns: "Ok" or "Err", "Exit" when
\* std::process::exit ran and "Panic" when std::env::set_var panicked
builtin_result(line, started) ==
    CASE line.name = "exit" -> (IF exit_code(line.arg) # 0 THEN "Exit" ELSE "Ok")
      [] line.name = "cd" -> (IF started THEN "Ok" ELSE "Err")
      [] line.name = "export" ->
            (IF export(<<ArgText(line.arg)>>, EnvState(<<>>, <<>>, <<>>, FALSE)).panicked
             THEN "Panic" ELSE "Ok")
      [] OTHER -> "Ok"

\* the pid the operating system gives the next child: a fresh one
NextPid == CHOOSE p \in Pids : procs[p] = "none" /\ \A q \in Pids : q < p => procs[q] # "none"

CanSpawn == \E p \in Pids : procs[p] = "none"

\* Shell::execute_line: "Ok", "Err", "Exit" or "Panic". started is whether
\* every call the line makes to the operating system succeeds: opening the
\* redirection files, starting the program and waiting for it, or changing
\* the directory.
execute_line_result(line, started) ==
    IF line.parse = "Err" THEN "Err"
    ELSE IF builtin_handler(line.name) # "none"
         THEN builtin_result(line, started)
         ELSE (IF started THEN "Ok" ELSE "Err")

\* an exit that leaves the flag alone
exit_sets_flag_never(line) == FALSE

\* Builtins::exit sets the flag before it looks at the code
exit_sets_flag(line) == line.parse # "Err" /\ line.name = "exit"

\* What the operating system answers to the calls of one command: open_fail
\* is the place in the redirection list of the file that cannot be opened (0
\* when all can), spawn_ok and wait_ok tell whether the program starts and
\* whether the wait of Command::status succeeds, status is how the child ends,
\* chdir_ok whether env::set_current_dir succeeds.
OsAnswer(open_fail, spawn_ok, wait_ok, status, chdir_ok) ==
    [open_fail |-> open_fail, spawn_ok |-> spawn_ok, wait_ok |-> wait_ok,
     status |-> status, chdir_ok |-> chdir_ok]

\* a shell that reports the failure of a child as an error
external_result_statusMatters(background, os) ==
    IF os.open_fail # 0 \/ ~os.spawn_ok THEN "Err"
    ELSE IF background THEN "Ok"
    ELSE IF os.wait_ok /\ os.status = "0" THEN "Ok" ELSE "Err"

\* Shell::execute_external_command: the `?` of the redirection files, of
\* command.spawn() and of command.status(), which starts the program and
\* waits for it; the status itself is only printed
external_result(background, os) ==
    IF os.open_fail # 0 \/ ~os.spawn_ok THEN "Err"
    ELSE IF background THEN "Ok"
    ELSE IF os.wait_ok THEN "Ok" ELSE "Err"

\* whether every call the line makes to the operating system succeeds
os_calls_succeed(line, os) ==
    IF builtin_handler(line.name) = "cd" THEN os.chdir_ok
    ELSE external_result(line.parse = "Background", os) = "Ok"

\* a child that reads the file of its Input redirection also in the background
child_stdin_redirWins(redirs, background) ==
    IF "Input" \in Range(redirs) THEN "file"
    ELSE IF background THEN "null" ELSE "inherit"

\* the stdin of the child: command.stdin(file) for each Input redirection,
\* then command.stdin(Stdio::null()) when background is set
child_stdin(redirs, background) ==
    IF background THEN "null"
    ELSE IF "Input" \in Range(redirs) THEN "file" ELSE "inherit"

\* the place in the list of the last redirection of one of the types, 0 when
\* there is none
RECURSIVE last_redir(_, _, _)
last_redir(redirs, types, i) ==
    IF i = 0 THEN 0
    ELSE IF redirs[i] \in types THEN i
    ELSE last_redir(redirs, types, i - 1)

\* a loop where the first redirection of a stream stays
stdout_redir_firstWins(redirs) ==
    IF \E i \in 1..Len(redirs) : redirs[i] \in {"Output", "Append"}
    THEN CHOOSE i \in 1..Len(redirs) :
            /\ redirs[i] \in {"Output", "Append"}
            /\ \A k \in 1..(i - 1) : redirs[k] \notin {"Output", "Append"}
    ELSE 0

\* each command.stdout(..) of the loop over the redirections replaces the one
\* before it: the file of the last Output or Append is the stdout of the child
stdout_redir(redirs) == last_redir(redirs, {"Output", "Append"}, Len(redirs))

\* and each command.stdin(..) likewise
stdin_redir(redirs) == last_redir(redirs, {"Input"}, Len(redirs))

\* how the loop opens the file of a redirection
open_mode(redir_type) ==
    CASE redir_type = "Input" -> "read"
      [] redir_type = "Output" -> "truncate"
      [] redir_type = "Append" -> "append"

\* a loop that opens no file unless it can open them all
opened_files_allOrNone(redirs, open_fail) ==
    [i \in 1..(IF open_fail = 0 THEN Len(redirs) ELSE 0) |->
        [redir |-> i, how |-> open_mode(redirs[i])]]

\* the files the loop has opened, in order, when it ends or leaves with `?`
opened_files(redirs, open_fail) ==
    [i \in 1..(IF open_fail = 0 THEN Len(redirs) ELSE open_fail - 1) |->
        [redir |-> i, how |-> open_mode(redirs[i])]]

\* a dispatch that runs the loop over the redirections for a builtin too
applies_redirections_always(line) == line.parse # "Err"

\* the loop over the redirections is in execute_external_command, which a
\* builtin never reaches: execute_simple_command returns the result of the
\* builtin before it
applies_redirections(line) ==
    line.parse # "Err" /\ builtin_handler(line.name) = "none"

\* whether execute_simple_command starts a process
spawns(line, os) ==
    /\ line.parse # "Err"
    /\ builtin_handler(line.name) = "none"
    /\ os.open_fail = 0
    /\ os.spawn_ok

\* the child when execute_simple_command returns: not waited on in the
\* background; waited on, and so exited, when command.status() returned Ok
child_at_return(line, os) ==
    IF ~spawns(line, os) THEN "none"
    ELSE IF line.parse = "Background" THEN "unwaited"
    ELSE IF os.wait_ok THEN "reaped" ELSE "unknown"

\* one call of execute_simple_command, with what it did
exec_record(line, os) ==
    [line |-> line,
     os |-> os,
     handler |-> builtin_handler(line.name),
     result |-> execute_line_result(line, os_calls_succeed(line, os)),
     child |-> child_at_return(line, os),
     child_stdin |-> IF spawns(line, os)
                     THEN child_stdin(line.redirs, line.parse = "Background")
                     ELSE "-",
     stdin_from |-> IF spawns(line, os)
                       /\ child_stdin(line.redirs, line.parse = "Background") = "file"
                    THEN stdin_redir(line.redirs) ELSE 0,
     stdout_to |-> IF spawns(line, os) THEN stdout_redir(line.redirs) ELSE 0,
     opened |-> IF applies_redirections(line)
                THEN opened_files(line.redirs, os.open_fail) ELSE <<>>]

NoOs == OsAnswer(0, TRUE, TRUE, "0", TRUE)

NoExec ==
    [line |-> [parse |-> "Err", name |-> "-", arg |-> "none", redirs |-> <<>>],
     os |-> NoOs, handler |-> "-", result |-> "-", child |-> "none",
     child_stdin |-> "-", stdin_from |-> 0, stdout_to |-> 0, opened |-> <<>>]

\* execute_external_command pushes the child when background is set
pushes_job(line, started) ==
    line.parse = "Background" /\ builtin_handler(line.name) = "none" /\ started

\* `println!("[{}] {}", self.background_jobs.len() + 1, child.id());`
job_line(jobs, pid) == [display_id |-> Len(jobs) + 1, pid |-> pid]

execute_line(line, started) ==
    /\ exit_requested' = (exit_requested \/ exit_sets_flag(line))
    /\ IF pushes_job(line, started)
       THEN /\ CanSpawn
            /\ background_jobs' = Append(background_jobs,
                  [pid |-> NextPid, display_id |-> Len(background_jobs) + 1])
            /\ procs' = [procs EXCEPT ![NextPid] = "running"]
            /\ announced' = Append(announced, job_line(background_jobs, NextPid))
       ELSE UNCHANGED <<background_jobs, procs, announced>>
    /\ UNCHANGED <<done_printed, try_wait_err, kill_called, wait_called>>

\* ------------------------------------------ shell.rs: execute_pipeline
\* a pipeline that gives a stage with the name of a builtin to its handler
stage_handler_dispatch(name) == builtin_handler(name)

\* execute_pipeline makes a Command of every stage and asks no builtin
stage_handler(name) == "none"

\* a handle of the shell: its own stream, or the read end of the pipe that is
\* the stdout of a stage
Inherit == [kind |-> "inherit", of |-> 0]

NoHandle == [kind |-> "None", of |-> 0]

PipeOf(i) == [kind |-> "pipe", of |-> i]

\* `previous_stdout.unwrap()` panics on None
unwrap_panics(i, previous_stdout) == i # 0 /\ previous_stdout.kind = "None"

\* the stdin of stage i of the loop (counted from 0): inherited for the first
\* stage, previous_stdout for the others
stage_stdin(i, previous_stdout) == IF i = 0 THEN Inherit ELSE previous_stdout

\* a loop that gives no stage a pipe
stage_stdout_neverPiped(i, n) == "inherit"

\* the stdout of stage i of n: inherited for the last stage, a pipe otherwise
stage_stdout(i, n) == IF i = n - 1 THEN "inherit" ELSE "piped"

\* `child.stdout.take().map(Stdio::from)`: the read end of the pipe of a stage
\* whose stdout is piped, None for a stage that inherits it
taken_stdout(i, n) == IF stage_stdout(i, n) = "piped" THEN PipeOf(i) ELSE NoHandle

\* children.push(child) after a spawn that succeeded
pipeline_child(pid, i, n, previous_stdout) ==
    [pid |-> pid, stdin |-> stage_stdin(i, previous_stdout),
     stdout |-> stage_stdout(i, n)]

\* what execute_pipeline did, in order: the spawn of a stage, the wait for one
pipeline_event(op, stage, pid, status) ==
    [op |-> op, stage |-> stage, pid |-> pid, status |-> status]

\* one iteration of the loop over the commands. `command.spawn()?` leaves the
\* function when the program cannot be started: the Vec of the children is
\* dropped then, and dropping a Child neither kills it nor waits for it.
pipeline_spawn(ok) ==
    LET n == Len(pl.commands)
        name == pl.commands[pl.i + 1]
    IN  /\ exit_requested' = (exit_requested \/ stage_handler(name) = "exit")
        /\ cwd' = IF stage_handler(name) = "cd" THEN home_dir(os_env) ELSE cwd
        /\ IF unwrap_panics(pl.i, pl.previous_stdout)
           THEN /\ procs' = procs
                /\ pl' = [pl EXCEPT
                      !.children = <<>>, !.previous_stdout = NoHandle,
                      !.phase = "panicked"]
           ELSE IF ok
           THEN /\ CanSpawn
                /\ procs' = [procs EXCEPT ![NextPid] = "running"]
                /\ pl' = [pl EXCEPT
                      !.i = @ + 1,
                      !.children = Append(@,
                          pipeline_child(NextPid, pl.i, n, pl.previous_stdout)),
                      !.previous_stdout = taken_stdout(pl.i, n),
                      !.events = Append(@, pipeline_event("spawn", pl.i, NextPid, "-")),
                      !.phase = IF pl.i + 1 = n THEN "wait" ELSE "spawn"]
           ELSE /\ procs' = procs
                /\ pl' = [pl EXCEPT
                      !.children = <<>>, !.previous_stdout = NoHandle,
                      !.phase = "returned", !.result = "Err"]

\* one iteration of `for mut child in children { let _ = child.wait()?; }`:
\* a wait that returns Ok returns after the child has exited, and has reaped
\* it, and its status is dropped; a wait that returns Err leaves the function,
\* and the children not yet waited for are dropped
pipeline_wait(ok, status) ==
    LET child == pl.children[pl.waited + 1]
        last == pl.waited + 1 = Len(pl.children)
    IN  /\ wait_called' = wait_called \cup {child.pid}
        /\ IF ok
           THEN /\ procs' = [procs EXCEPT ![child.pid] = "reaped"]
                /\ pl' = [pl EXCEPT
                      !.waited = @ + 1,
                      !.events = Append(@, pipeline_event("wait", pl.waited, child.pid, status)),
                      !.children = IF last THEN <<>> ELSE @,
                      !.phase = IF last THEN "returned" ELSE "wait",
                      !.result = IF last THEN "Ok" ELSE "-"]
           ELSE /\ procs' = procs
                /\ pl' = [pl EXCEPT
                      !.children = <<>>, !.phase = "returned", !.result = "Err"]

\* --------------------------------------------- shell.rs: driving loops
Modes == {"interactive", "command", "script", "markdown"}

\* what a driving loop prints for the result of execute_line: run_shell_script
\* "aish: {file}:{line}: {e}", run_markdown_file "aish: {file}: block {b}:{l}:
\* {e}", run_interactive "aish: {e}"; run_command returns the error
error_report(m, r) ==
    IF r # "Err" THEN "-"
    ELSE CASE m = "script" -> "file:line"
           [] m = "markdown" -> "file:block:line"
           [] m = "interactive" -> "plain"
           [] OTHER -> "-"

\* the line a driving loop gave to execute_line: the builtin handler that ran
\* ("none" for an external program, "-" when the line did not parse) with its
\* first argument, the result, the code given to std::process::exit when it
\* ran, and what the loop printed for the result
line_report(m, line, started) ==
    [handler |-> IF line.parse = "Err" THEN "-" ELSE builtin_handler(line.name),
     arg |-> line.arg,
     result |-> execute_line_result(line, started),
     code |-> IF execute_line_result(line, started) = "Exit"
              THEN exit_code(line.arg) ELSE 0,
     reported |-> error_report(m, execute_line_result(line, started))]

NoLine ==
    [handler |-> "-", arg |-> "none", result |-> "-", code |-> 0, reported |-> "-"]

\* a loop that gives up at the first line that fails
after_script_line_failFast(r) ==
    CASE r = "Exit" -> "exited"
      [] r = "Panic" -> "panicked"
      [] r = "Err" -> "returned"
      [] OTHER -> "loop"

\* where run_shell_script and run_interactive go after execute_line: the
\* process is gone after std::process::exit or a panic, the loop goes on after
\* Ok and, having printed the error, after Err
after_script_line(r) ==
    CASE r = "Exit" -> "exited"
      [] r = "Panic" -> "panicked"
      [] OTHER -> "loop"

\* the same for the loop over the lines of a block in run_markdown_file
after_block_line(r) ==
    CASE r = "Exit" -> "exited"
      [] r = "Panic" -> "panicked"
      [] OTHER -> "read"

NoCall == [op |-> "-", args |-> <<>>, result |-> "-", stderr |-> <<>>]

\* no builtin call and no call of execute_simple_command is looked at
BuiltinIdle ==
    /\ env_vars = <<>>
    /\ cwd = <<>>
    /\ last_call = NoCall
    /\ ncalls = 0

\* execute_pipeline before its loops, and when it is not called
NoPipeline ==
    [commands |-> <<>>, phase |-> "idle", i |-> 0, children |-> <<>>,
     previous_stdout |-> NoHandle, waited |-> 0, result |-> "-", events |-> <<>>]

ExecIdle == last_exec = NoExec /\ pl = NoPipeline

\* no call of the parser is looked at
ParserIdle ==
    /\ os_env = <<>>
    /\ call_input = <<>>
    /\ ppc = "idle"
    /\ tk = TokInit
    /\ parse_result = ParseErr("-")
    /\ expanded = <<>>

ShellInit ==
    /\ ParserIdle
    /\ BuiltinIdle
    /\ ExecIdle
    /\ announced = <<>>
    /\ last_line = NoLine
    /\ mode \in Modes
    /\ pc = CASE mode = "interactive" -> "loop"
              [] mode = "command" -> "read"
              [] OTHER -> "open"
    /\ ret = "-"
    /\ background_jobs = <<>>
    /\ exit_requested = FALSE
    /\ procs = [p \in Pids |-> "none"]
    /\ done_printed = [p \in Pids |-> 0]
    /\ try_wait_err = {}
    /\ kill_called = {}
    /\ wait_called = {}

\* run_shell_script: File::open(..)?; run_markdown_file: read_to_string(..)?
\* and MarkdownScript::parse(..)?
OpenFile ==
    /\ pc = "open"
    /\ \E ok \in BOOLEAN :
         /\ pc' = IF ok THEN "loop" ELSE "returned"
         /\ ret' = IF ok THEN ret ELSE "Err"
    /\ UNCHANGED <<mode, background_jobs, exit_requested, osVars>>
    /\ UNCHANGED <<offShell, logVars>>

\* The loop ends: `while !self.exit_requested` (interactive), the end of the
\* lines or of the blocks, or `if self.exit_requested { break; }` (files).
LoopExit ==
    /\ pc = "loop"
    /\ exit_requested \/ mode \in {"script", "markdown"}
    /\ pc' = "shutdown"
    /\ UNCHANGED <<mode, ret, background_jobs, exit_requested, osVars>>
    /\ UNCHANGED <<offShell, logVars>>

LoopEnter ==
    /\ pc = "loop"
    /\ ~exit_requested
    /\ pc' = "poll"
    /\ UNCHANGED <<mode, ret, background_jobs, exit_requested, osVars>>
    /\ UNCHANGED <<offShell, logVars>>

\* self.cleanup_background_jobs() at the top of every iteration
Poll ==
    /\ pc = "poll"
    /\ \E res \in TryWaitOutcomes(background_jobs, procs) : cleanup_background_jobs(res)
    /\ pc' = "read"
    /\ UNCHANGED <<mode, ret, exit_requested, kill_called, wait_called>>
    /\ UNCHANGED <<offShell, logVars>>

\* an interrupt that ends the loop as the end of the input does
after_readline_interruptEnds(ev) == "shutdown"

\* run_interactive, the arms of `match self.editor.readline(&prompt)` that
\* execute nothing: `continue` for an empty line and for Interrupted, `break`
\* for Eof and for any other error
after_readline(ev) ==
    CASE ev = "Empty" -> "loop"
      [] ev = "Interrupted" -> "loop"
      [] ev = "Eof" -> "shutdown"
      [] OTHER -> "shutdown"

\* run_interactive: readline gives Interrupted (continue), or an empty line
ReadContinue ==
    /\ mode = "interactive"
    /\ pc = "read"
    /\ \E ev \in {"Empty", "Interrupted"} : pc' = after_readline(ev)
    /\ UNCHANGED <<mode, ret, background_jobs, exit_requested, osVars>>
    /\ UNCHANGED <<offShell, logVars>>

\* run_interactive: readline gives Eof or another error (break)
ReadEnd ==
    /\ mode = "interactive"
    /\ pc = "read"
    /\ \E ev \in {"Eof", "Error"} : pc' = after_readline(ev)
    /\ UNCHANGED <<mode, ret, background_jobs, exit_requested, osVars>>
    /\ UNCHANGED <<offShell, logVars>>

\* run_interactive: execute_line_interactive hands the line to the LLM
\* processor, which does not touch the shell
InteractiveLlm ==
    /\ mode = "interactive"
    /\ pc = "read"
    /\ pc' = "loop"
    /\ UNCHANGED <<mode, ret, background_jobs, exit_requested, osVars>>
    /\ UNCHANGED <<offShell, logVars>>

\* run_interactive: execute_line_interactive runs execute_line; an Err is
\* printed and the loop goes on
InteractiveExec ==
    /\ mode = "interactive"
    /\ pc = "read"
    /\ \E line \in DriverLines : \E started \in StartedFor(line) :
         /\ execute_line(line, started)
         /\ pc' = after_script_line(execute_line_result(line, started))
         /\ last_line' = line_report(mode, line, started)
    /\ UNCHANGED <<mode, ret>>
    /\ UNCHANGED offShell

\* where run_shell_script goes when `line_result?` finds an Err
after_read_error == "returned"

\* run_shell_script: `let line = line_result?;`
ScriptReadError ==
    /\ mode = "script"
    /\ pc = "read"
    /\ pc' = after_read_error
    /\ ret' = IF after_read_error = "returned" THEN "Err" ELSE ret
    /\ UNCHANGED <<mode, background_jobs, exit_requested, osVars>>
    /\ UNCHANGED <<offShell, logVars>>

\* run_shell_script: an empty line or a comment
ScriptSkip ==
    /\ mode = "script"
    /\ pc = "read"
    /\ pc' = "loop"
    /\ UNCHANGED <<mode, ret, background_jobs, exit_requested, osVars>>
    /\ UNCHANGED <<offShell, logVars>>

\* run_shell_script: execute_line; an Err is printed and the loop goes on
ScriptExec ==
    /\ mode = "script"
    /\ pc = "read"
    /\ \E line \in DriverLines : \E started \in StartedFor(line) :
         /\ execute_line(line, started)
         /\ pc' = after_script_line(execute_line_result(line, started))
         /\ last_line' = line_report(mode, line, started)
    /\ UNCHANGED <<mode, ret>>
    /\ UNCHANGED offShell

\* run_markdown_file: a line of the block; the inner loop skips empty lines
\* and comments, breaks on exit_requested and prints an Err of execute_line
MarkdownExec ==
    /\ mode = "markdown"
    /\ pc = "read"
    /\ ~exit_requested
    /\ \E line \in DriverLines : \E started \in StartedFor(line) :
         /\ execute_line(line, started)
         /\ pc' = after_block_line(execute_line_result(line, started))
         /\ last_line' = line_report(mode, line, started)
    /\ UNCHANGED <<mode, ret>>
    /\ UNCHANGED offShell

\* run_markdown_file: the lines of the block end, or the inner loop breaks
MarkdownBlockEnd ==
    /\ mode = "markdown"
    /\ pc = "read"
    /\ pc' = "loop"
    /\ UNCHANGED <<mode, ret, background_jobs, exit_requested, osVars>>
    /\ UNCHANGED <<offShell, logVars>>

\* run_command: `self.execute_line(command)?;`
CommandExec ==
    /\ mode = "command"
    /\ pc = "read"
    /\ \E line \in DriverLines : \E started \in StartedFor(line) :
         /\ execute_line(line, started)
         /\ LET r == execute_line_result(line, started) IN
              /\ pc' = CASE r = "Exit" -> "exited"
                         [] r = "Panic" -> "panicked"
                         [] r = "Err" -> "returned"
                         [] OTHER -> "shutdown"
              /\ ret' = IF r = "Err" THEN "Err" ELSE ret
              /\ last_line' = line_report(mode, line, started)
    /\ UNCHANGED mode
    /\ UNCHANGED offShell

\* self.cleanup_all_jobs(); Ok(())
Shutdown ==
    /\ pc = "shutdown"
    /\ \E kerr \in SUBSET JobPids(background_jobs), werr \in SUBSET JobPids(background_jobs) :
         cleanup_all_jobs(kerr, werr)
    /\ pc' = "returned"
    /\ ret' = "Ok"
    /\ UNCHANGED <<mode, exit_requested, done_printed, try_wait_err>>
    /\ UNCHANGED <<offShell, logVars>>

\* a background process ends on its own, at any moment
JobTerminates ==
    /\ \E p \in Pids :
         /\ procs[p] = "running"
         /\ procs' = [procs EXCEPT ![p] = "exited"]
    /\ UNCHANGED <<shellVars, done_printed, try_wait_err, kill_called, wait_called>>
    /\ UNCHANGED <<offShell, logVars>>

Next ==
    \/ OpenFile
    \/ LoopExit
    \/ LoopEnter
    \/ Poll
    \/ ReadContinue
    \/ ReadEnd
    \/ InteractiveLlm
    \/ InteractiveExec
    \/ ScriptReadError
    \/ ScriptSkip
    \/ ScriptExec
    \/ MarkdownExec
    \/ MarkdownBlockEnd
    \/ CommandExec
    \/ Shutdown
    \/ JobTerminates

Spec == ShellInit /\ [][Next]_vars

\* ------------------------------------------------------------ job table
\* a step of cleanup_background_jobs
PollStep == pc = "poll" /\ pc' # "poll"

\* a step of cleanup_all_jobs
ShutdownStep == pc = "shutdown" /\ pc' # "shutdown"

\* C1, as stated: "[pid] Done" is printed for a job at most once, the first
\* poll that runs after the job has terminated prints it, and from that poll on
\* the job is not in the job table.
C1_DoneByFirstPollAfterExit ==
    [][/\ \A p \in Pids : done_printed'[p] <= 1
       /\ PollStep =>
            \A p \in JobPids(background_jobs) :
                procs[p] = "exited" =>
                    /\ done_printed'[p] = 1
                    /\ p \notin JobPids(background_jobs')
       /\ \A p \in Pids :
            (procs[p] # "none" /\ p \notin JobPids(background_jobs))
                => p \notin JobPids(background_jobs')]_vars

\* C1, amended: "[pid] Done" is printed for a job at most once and only by a
\* poll that finds the job terminated; the first poll that runs after the job
\* has terminated removes it from the job table, printing Done exactly when its
\* non-blocking wait succeeds and nothing when that wait fails; a job that has
\* left the table never comes back.
C1_DoneOnceWhenPollSeesExit ==
    [][/\ \A p \in Pids : done_printed'[p] <= 1
       /\ \A p \in Pids :
            done_printed'[p] # done_printed[p]
                => PollStep /\ procs[p] = "exited" /\ p \in JobPids(background_jobs)
       /\ PollStep =>
            \A p \in JobPids(background_jobs) :
                procs[p] = "exited" =>
                    /\ p \notin JobPids(background_jobs')
                    /\ \/ p \notin try_wait_err' /\ done_printed'[p] = 1
                       \/ p \in try_wait_err' /\ done_printed'[p] = 0
       /\ \A p \in Pids :
            (procs[p] # "none" /\ p \notin JobPids(background_jobs))
                => p \notin JobPids(background_jobs')]_vars

\* a poll has printed Done for one job and removed it, beside a job that stays
C1_Witness ==
    \E p, q \in Pids :
        /\ pc = "read"
        /\ done_printed[p] = 1
        /\ procs[p] = "reaped"
        /\ p \notin JobPids(background_jobs)
        /\ q \in JobPids(background_jobs)

\* the jobs of the table that a poll finds ended, or cannot ask
Failed(p) == p \in try_wait_err'

FoundEnded(p) == procs[p] = "exited" /\ ~Failed(p)

StaysAfterPoll(j) == ~Failed(j.pid) /\ ~FoundEnded(j.pid)

\* C23: a poll removes from the job table the jobs whose non-blocking wait
\* reports the end of the process, for which it prints "[pid] Done", and the
\* jobs whose non-blocking wait fails, for which it prints nothing, and no
\* others: a job that is reported running stays, the jobs that stay keep their
\* order, and the poll neither waits for a running job nor kills one.
C23_PollFrame ==
    [][PollStep =>
          /\ background_jobs' = SelectSeq(background_jobs, StaysAfterPoll)
          /\ \A p \in JobPids(background_jobs) :
                /\ (procs[p] = "running" /\ ~Failed(p)) => p \in JobPids(background_jobs')
                /\ done_printed'[p] =
                      IF FoundEnded(p) THEN done_printed[p] + 1 ELSE done_printed[p]
          /\ \A p \in Pids \ JobPids(background_jobs) :
                done_printed'[p] = done_printed[p] /\ procs'[p] = procs[p]
          /\ \A p \in Pids : procs[p] = "running" => procs'[p] = "running"
          /\ kill_called' = kill_called
          /\ wait_called' = wait_called
          /\ UNCHANGED <<exit_requested, announced>>]_vars

\* polls have removed one job with Done and one without a word, and kept a
\* third that runs
C23_Witness ==
    \E p, q, r \in Pids :
        /\ pc = "read"
        /\ done_printed[p] = 1
        /\ p \notin JobPids(background_jobs)
        /\ q \in try_wait_err
        /\ done_printed[q] = 0
        /\ q \notin JobPids(background_jobs)
        /\ background_jobs # <<>>
        /\ background_jobs[1].pid = r
        /\ procs[r] = "running"
        /\ kill_called = {}

\* C2: cleanup_all_jobs leaves the job table empty, and has called kill and the
\* blocking wait on every job that was in the table when it started, whatever
\* the number of jobs and whether or not kill or wait returned an error.
C2_ShutdownDrainsTable ==
    [][ShutdownStep =>
          /\ background_jobs' = <<>>
          /\ JobPids(background_jobs) \subseteq kill_called'
          /\ JobPids(background_jobs) \subseteq wait_called']_vars

\* shutdown has run on two jobs or more, and the wait of one returned an error
C2_Witness ==
    /\ pc = "returned"
    /\ ret = "Ok"
    /\ background_jobs = <<>>
    /\ Cardinality(kill_called \cap wait_called) >= 2
    /\ \E p \in wait_called : procs[p] # "reaped"

\* C3: when run_interactive, run_command or run_file has returned, every job
\* tracked in the job table has been killed and waited on.
C3_EveryReturnReapsJobs ==
    pc = "returned" =>
        /\ JobPids(background_jobs) \subseteq kill_called
        /\ JobPids(background_jobs) \subseteq wait_called

\* ---------------------------------------------------------- driving loops
\* last_line describes the last line that a driving loop gave to execute_line,
\* until the next one: a formula on last_line' speaks of every state from that
\* call on.

\* the process has ended, or the entry point has returned
Ended(at) == at \in {"returned", "exited", "panicked"}

\* the job table and the processes are left as they are
NoDrain ==
    UNCHANGED <<background_jobs, procs, kill_called, wait_called, done_printed>>

\* once the exit flag is set no line is read any more: the loop leaves for
\* shutdown, and shutdown drains the job table and returns Ok
LoopEndsInShutdown ==
    /\ (exit_requested /\ pc = "loop") => pc' \in {"loop", "shutdown"}
    /\ (exit_requested /\ pc = "read") => pc' \in {"read", "loop"}
    /\ (pc = "shutdown" /\ pc' # pc) =>
          /\ pc' = "returned"
          /\ ret' = "Ok"
          /\ background_jobs' = <<>>
          /\ JobPids(background_jobs) \subseteq kill_called' \cap wait_called'

\* the greatest i32
I32Max == 2147483647

\* the code is the number the argument of exit spells: 1 for "1", and one more
\* than I32Max for "2147483648"
CodeSpelledBy(code, arg) ==
    IF arg = "1" THEN code = 1 ELSE code > I32Max

\* C15, as stated: exit always sets the exit flag; without argument or with
\* argument 0 it returns Ok and the process goes on, so that the driving loop
\* ends and shutdown runs; with a numeric argument n other than 0 the process
\* ends at once with code n, and the job table is not drained.
C15_ExitCodeN ==
    [][/\ last_line'.handler = "exit" =>
            /\ exit_requested'
            /\ last_line'.arg \in {"none", "0"} =>
                  (last_line'.result = "Ok" /\ pc' \notin {"exited", "panicked"})
            /\ last_line'.arg \in {"1", "2147483648"} =>
                  /\ pc' = "exited"
                  /\ CodeSpelledBy(last_line'.code, last_line'.arg)
       /\ (pc # "exited" /\ pc' = "exited") => NoDrain
       /\ LoopEndsInShutdown]_vars

\* C15, amended: the same, where the code is n for an n that an i32 holds, and
\* 1 for a greater one (both arguments of the model end the process with 1).
C15_ExitCodeI32 ==
    [][/\ last_line'.handler = "exit" =>
            /\ exit_requested'
            /\ last_line'.arg \in {"none", "0"} =>
                  (last_line'.result = "Ok" /\ pc' \notin {"exited", "panicked"})
            /\ last_line'.arg \in {"1", "2147483648"} =>
                  /\ pc' = "exited"
                  /\ last_line'.code = 1
       /\ (pc # "exited" /\ pc' = "exited") => NoDrain
       /\ LoopEndsInShutdown]_vars

\* C40: exit ends the process at once, without the shutdown of the jobs, only
\* when its first argument is a number other than 0: `exit abc` does what
\* `exit` does, it sets the exit flag and returns Ok, and the shutdown drains
\* the job table.
C40_ExitWithoutNumberIsPlainExit ==
    [][/\ (pc # "exited" /\ pc' = "exited" /\ last_line'.handler = "exit")
             => last_line'.arg \in {"1", "2147483648"}
       /\ (last_line'.handler = "exit" /\ last_line'.arg = "abc") =>
             /\ exit_requested'
             /\ last_line'.result = "Ok"
             /\ pc' \notin {"exited", "panicked"}
       /\ LoopEndsInShutdown]_vars

\* `exit 1` has ended the process with code 1 while a job was in the table
C15_Witness ==
    /\ pc = "exited"
    /\ last_line.handler = "exit"
    /\ last_line.arg = "1"
    /\ last_line.code = 1
    /\ exit_requested
    /\ background_jobs # <<>>

\* the loop over the lines leaves for good
LeavesLines == pc \in {"poll", "read"} /\ Ended(pc')

C20_EofIsExitZero ==
    [][mode = "interactive" =>
          /\ ReadEnd =>
                /\ pc' = "shutdown"
                /\ UNCHANGED <<background_jobs, exit_requested, osVars, logVars>>
          /\ (last_line'.handler = "exit" /\ last_line'.result = "Ok") =>
                (exit_requested' /\ pc' \in {"loop", "shutdown", "returned"})
          /\ LoopEndsInShutdown
          /\ pc = "shutdown" => pc' \in {"shutdown", "returned"}
          /\ ReadContinue =>
                /\ pc' = "loop"
                /\ UNCHANGED <<background_jobs, exit_requested, osVars, logVars>>]_vars

\* run_interactive has returned Ok after the end of the input, with the jobs
\* killed and waited on, and no exit was called
C20_Witness ==
    /\ mode = "interactive"
    /\ pc = "returned"
    /\ ret = "Ok"
    /\ ~exit_requested
    /\ background_jobs = <<>>
    /\ kill_called \cap wait_called # {}

\* ------------------------------------------------ the calls of the parser
\* the shell is not looked at
ShellIdle ==
    /\ mode = "none"
    /\ pc = "idle"
    /\ ret = "-"
    /\ background_jobs = <<>>
    /\ exit_requested = FALSE
    /\ procs = [p \in Pids |-> "none"]
    /\ done_printed = [p \in Pids |-> 0]
    /\ try_wait_err = {}
    /\ kill_called = {}
    /\ wait_called = {}
    /\ announced = <<>>
    /\ last_line = NoLine
    /\ ExecIdle

\* the strings over chars of length n at most
StringsUpTo(chars, n) == UNION {[1..k -> chars] : k \in 0..n}

\* the environments that set some of names, to values
Envs(names, values) == UNION {[S -> values] : S \in SUBSET names}

\* ---- tokenize, one loop iteration at a time
TokChars == {"a", " ", "|", ">", DQ, SQ, BS}

TokenizeInit ==
    /\ ShellIdle
    /\ BuiltinIdle
    /\ os_env = <<>>
    /\ call_input \in StringsUpTo(TokChars, MaxLineLen)
    /\ ppc = "scan"
    /\ tk = TokInit
    /\ parse_result = ParseErr("-")
    /\ expanded = <<>>

TokenizeStep ==
    /\ ppc = "scan"
    /\ tk.i <= Len(call_input)
    /\ tk' = TokStep(tk, call_input)
    /\ UNCHANGED <<shellVars, osVars, os_env, call_input, ppc, parse_result, expanded>>
    /\ UNCHANGED offParser

TokenizeEnd ==
    /\ ppc = "scan"
    /\ tk.i > Len(call_input)
    /\ tk' = Flush(tk)
    /\ ppc' = "tokenized"
    /\ UNCHANGED <<shellVars, osVars, os_env, call_input, parse_result, expanded>>
    /\ UNCHANGED offParser

TokenizeNext == TokenizeStep \/ TokenizeEnd

SpecTokenize == TokenizeInit /\ [][TokenizeNext]_vars

\* ---- parse, on lines of words with a space between them
ParseWords == {<<"a">>, <<"$", "a">>, PIPE, AMP, LT, GT, GTGT}

RECURSIVE JoinWords(_)
JoinWords(ws) ==
    IF ws = <<>> THEN <<>>
    ELSE IF Len(ws) = 1 THEN ws[1]
    ELSE ws[1] \o <<" ">> \o JoinWords(Tail(ws))

\* longer lines, beside all the lines of MaxWords words at most
LongerLines ==
    {<<<<"a">>, PIPE, <<"a">>, PIPE, <<"$", "a">>>>,
     <<<<"a">>, <<"a">>, PIPE, <<"a">>, PIPE, PIPE, <<"a">>>>,
     <<<<"a">>, GT, <<"a">>, <<"$", "a">>, GTGT, <<"a">>, LT, <<"$", "a">>, AMP>>,
     <<<<"a">>, LT, GT, GT, GTGT, <<"a">>, GTGT>>}

ParseInit ==
    /\ ShellIdle
    /\ BuiltinIdle
    /\ os_env \in Envs({<<"a">>}, {<<"|">>, <<DQ, " ", "&">>})
    /\ \E ws \in StringsUpTo(ParseWords, MaxWords) \cup LongerLines :
          call_input = JoinWords(ws)
    /\ ppc = "start"
    /\ tk = TokInit
    /\ parse_result = ParseErr("-")
    /\ expanded = <<>>

ParseLine ==
    /\ ppc = "start"
    /\ parse_result' = parse(call_input, os_env)
    /\ ppc' = "parsed"
    /\ UNCHANGED <<shellVars, osVars, os_env, call_input, tk, expanded>>
    /\ UNCHANGED offParser

SpecParse == ParseInit /\ [][ParseLine]_vars

\* ---- parse, on lines where operators are written plain, quoted and escaped
QuoteWords ==
    {<<"a">>, PIPE, AMP, GT,
     <<DQ, "|", DQ>>, <<SQ, "&", SQ>>, <<BS, ">">>, <<DQ, ">", ">", DQ>>, <<SQ, "<", SQ>>}

QuoteInit ==
    /\ ShellIdle
    /\ BuiltinIdle
    /\ os_env = <<>>
    /\ \E ws \in StringsUpTo(QuoteWords, MaxWords) : call_input = JoinWords(ws)
    /\ ppc = "start"
    /\ tk = TokInit
    /\ parse_result = ParseErr("-")
    /\ expanded = <<>>

SpecQuote == QuoteInit /\ [][ParseLine]_vars

\* ---- parse, on lines where `$a` is written plain, quoted and escaped
DollarWords ==
    {<<"a">>, <<"$", "a">>, <<SQ, "$", "a", SQ>>, <<DQ, "$", "a", DQ>>,
     <<BS, "$", "a">>, <<"$", "$", "{", "}", "a">>}

DollarInit ==
    /\ ShellIdle
    /\ BuiltinIdle
    /\ os_env \in Envs({<<"a">>}, {<<"v">>})
    /\ \E ws \in StringsUpTo(DollarWords, MaxWords) : call_input = JoinWords(ws)
    /\ ppc = "start"
    /\ tk = TokInit
    /\ parse_result = ParseErr("-")
    /\ expanded = <<>>

SpecDollar == DollarInit /\ [][ParseLine]_vars

\* ---- expand_variables
ExpandChars == {"a", "$", "{", "}", "-"}

ExpandInit ==
    /\ ShellIdle
    /\ BuiltinIdle
    /\ os_env \in UNION {[S -> {<<"$", "a">>, <<"v">>}] : S \in SUBSET {<<"a">>, <<"a", "a">>}}
    /\ call_input \in StringsUpTo(ExpandChars, MaxTokenLen)
    /\ ppc = "start"
    /\ tk = TokInit
    /\ parse_result = ParseErr("-")
    /\ expanded = <<>>

ExpandToken ==
    /\ ppc = "start"
    /\ expanded' = expand_variables(call_input, os_env)
    /\ ppc' = "expanded"
    /\ UNCHANGED <<shellVars, osVars, os_env, call_input, tk, parse_result>>
    /\ UNCHANGED offParser

SpecExpand == ExpandInit /\ [][ExpandToken]_vars

\* ------------------------------------------------------- the parse result
\* the tokens of the line parsed, and what is left of them without a last "&"
LineTokens == tokenize(call_input)

EndsInAmp(t) == t # <<>> /\ t[Len(t)] = AMP

Body(t) == IF EndsInAmp(t) THEN SubSeq(t, 1, Len(t) - 1) ELSE t

Parsed == ppc = "parsed"

\* the j-th smallest member of a set of positions
NthIn(P, j) == CHOOSE i \in P : Cardinality({x \in P : x < i}) = j - 1

\* C4: every SimpleCommand of an Ok result of parse, be it the payload of
\* Simple or Background or a stage of Pipeline, has one argument at least.
C4_CommandsHaveArgs ==
    (Parsed /\ parse_result.ok) =>
        \A i \in 1..Len(parse_result.commands) :
            Len(parse_result.commands[i].args) >= 1

\* a Background command of one argument whose other tokens are a redirection
C4_Witness ==
    /\ Parsed
    /\ parse_result.ok
    /\ parse_result.kind = "Background"
    /\ Len(parse_result.commands[1].args) = 1
    /\ parse_result.commands[1].redirections # <<>>

\* C5: a line whose last token is "&" and whose other tokens include "|" fails
\* with InvalidSyntax; parse returns no Pipeline for a line whose last token is
\* "&" and no Background for a line with a "|" token.
C5_NoBackgroundPipeline ==
    Parsed =>
        LET t == LineTokens IN
        /\ (EndsInAmp(t) /\ PIPE \in Range(Body(t)))
              => parse_result = ParseErr("InvalidSyntax")
        /\ (parse_result.ok /\ parse_result.kind = "Pipeline") => ~EndsInAmp(t)
        /\ (parse_result.ok /\ parse_result.kind = "Background") => PIPE \notin Range(t)

\* `a | a &`: a well-formed pipeline followed by "&" was rejected
C5_Witness ==
    /\ Parsed
    /\ LineTokens = <<<<"a">>, PIPE, <<"a">>, AMP>>
    /\ parse_result = ParseErr("InvalidSyntax")

\* the places of the "|" tokens, and the group of tokens before the j-th of
\* them (after the last of them, for j one more than their number)
BarPositions(t) == {i \in 1..Len(t) : t[i] = PIPE}

BarAt(t, j) ==
    IF j = 0 THEN 0
    ELSE IF j > Cardinality(BarPositions(t)) THEN Len(t) + 1
    ELSE NthIn(BarPositions(t), j)

Group(t, j) == SubSeq(t, BarAt(t, j - 1) + 1, BarAt(t, j) - 1)

\* C6: for a line without a last "&" and with k >= 1 "|" tokens, parse returns
\* Pipeline with the k+1 groups between the "|" tokens as the args of its k+1
\* stages, in order, if every group is non-empty, and fails with InvalidSyntax
\* if a group is empty.
C6_PipelineStages ==
    Parsed =>
        LET t == LineTokens
            k == Cardinality(BarPositions(t))
        IN  (t # <<>> /\ ~EndsInAmp(t) /\ k >= 1) =>
                IF \A j \in 1..(k + 1) : Group(t, j) # <<>>
                THEN /\ parse_result.ok
                     /\ parse_result.kind = "Pipeline"
                     /\ Len(parse_result.commands) = k + 1
                     /\ \A j \in 1..(k + 1) :
                          parse_result.commands[j].args = Group(t, j)
                ELSE parse_result = ParseErr("InvalidSyntax")

\* a pipeline of two stages or more, one of them with several arguments
C6_Witness ==
    /\ Parsed
    /\ parse_result.ok
    /\ parse_result.kind = "Pipeline"
    /\ Len(parse_result.commands) >= 2
    /\ \E j \in 1..Len(parse_result.commands) : Len(parse_result.commands[j].args) >= 2

\* What the walk of a line without "|" makes of the token at place i: "op" for
\* a redirection operator, "file" for the token after an operator, "arg" else.
RedirOps == {LT, GT, GTGT}

RECURSIVE Role(_, _)
Role(b, i) ==
    IF i > 1 /\ Role(b, i - 1) = "op" THEN "file"
    ELSE IF b[i] \in RedirOps THEN "op"
    ELSE "arg"

ArgPositions(b) == {i \in 1..Len(b) : Role(b, i) = "arg"}
OpPositions(b) == {i \in 1..Len(b) : Role(b, i) = "op"}

\* the walk ends on an operator that has no token after it
WalkLacksFilename(b) == b # <<>> /\ Role(b, Len(b)) = "op"

\* C7: parse fails with EmptyCommand when the line has no token, and when a
\* line without "|" has no argument left once the last "&" is removed and the
\* redirections have taken their filenames.
C7_EmptyCommand ==
    Parsed =>
        LET t == LineTokens
            b == Body(LineTokens)
        IN  /\ t = <<>> => parse_result = ParseErr("EmptyCommand")
            /\ (PIPE \notin Range(b) /\ ~WalkLacksFilename(b) /\ ArgPositions(b) = {})
                  => parse_result = ParseErr("EmptyCommand")

\* `> a &`: only a redirection is left, and parse answered EmptyCommand
C7_Witness ==
    /\ Parsed
    /\ LineTokens = <<GT, <<"a">>, AMP>>
    /\ parse_result = ParseErr("EmptyCommand")

\* the args and the redirections the walk of b should give
ExpectedType(op) ==
    CASE op = LT -> "Input"
      [] op = GT -> "Output"
      [] op = GTGT -> "Append"

ExpectedArgs(b, env) ==
    [j \in 1..Cardinality(ArgPositions(b)) |->
        expand_variables(b[NthIn(ArgPositions(b), j)], env)]

ExpectedRedirections(b) ==
    [j \in 1..Cardinality(OpPositions(b)) |->
        LET at == NthIn(OpPositions(b), j)
        IN  Redirection(ExpectedType(b[at]), b[at + 1])]

ExpectedCommand(t, env) ==
    ParseOk(IF EndsInAmp(t) THEN "Background" ELSE "Simple",
            <<SimpleCommand(ExpectedArgs(Body(t), env), ExpectedRedirections(Body(t)))>>)

\* C8, as stated: in a line without "|" each "<", ">", ">>" met by the walk
\* takes the next token as its filename, redirections and arguments keep the
\* order of the line, and parse fails with MissingFilename if the last token
\* (after a last "&" is removed) is a redirection operator.
C8_MissingFilenameWhenLastIsOperator ==
    Parsed =>
        LET t == LineTokens
            b == Body(LineTokens)
        IN  (t # <<>> /\ PIPE \notin Range(b)) =>
              /\ (b # <<>> /\ b[Len(b)] \in RedirOps)
                    => parse_result = ParseErr("MissingFilename")
              /\ (~WalkLacksFilename(b) /\ ArgPositions(b) # {})
                    => parse_result = ExpectedCommand(t, os_env)

\* C8, amended: parse fails with MissingFilename if the walk meets a
\* redirection operator at the last token, that is if the last token is an
\* operator that the operator before it has not taken as its filename.
C8_RedirectionsInOrder ==
    Parsed =>
        LET t == LineTokens
            b == Body(LineTokens)
        IN  (t # <<>> /\ PIPE \notin Range(b)) =>
              /\ WalkLacksFilename(b) <=> parse_result = ParseErr("MissingFilename")
              /\ (~WalkLacksFilename(b) /\ ArgPositions(b) # {})
                    => parse_result = ExpectedCommand(t, os_env)

\* redirections of different types between arguments, in the order written
C8_Witness ==
    /\ Parsed
    /\ parse_result.ok
    /\ parse_result.kind \in {"Simple", "Background"}
    /\ Len(parse_result.commands[1].args) >= 2
    /\ Len(parse_result.commands[1].redirections) >= 2
    /\ parse_result.commands[1].redirections[1].redir_type
          # parse_result.commands[1].redirections[2].redir_type

\* C9: inside a quoted region no character ends the current token or becomes
\* an operator token: a space, tab, "|", "&", "<" or ">" there is appended to
\* the current token, and neither the opening nor the closing quote ends the
\* token, so the region is one piece of one token with the word characters
\* next to it.
C9_NoSplitInsideQuotes ==
    [][(ppc = "scan" /\ ppc' = "scan") =>
          LET ch == call_input[tk.i] IN
          /\ (tk.in_quotes /\ ch # tk.quote_char) =>
                /\ tk'.tokens = tk.tokens
                /\ tk'.current_token = Append(tk.current_token, ch)
                /\ tk'.in_quotes
                /\ tk'.i = tk.i + 1
          /\ (tk.in_quotes /\ ch = tk.quote_char) =>
                /\ tk'.tokens = tk.tokens
                /\ tk'.current_token = tk.current_token
                /\ ~tk'.in_quotes
          /\ (~tk.in_quotes /\ ch \in QuoteChars) =>
                /\ tk'.tokens = tk.tokens
                /\ tk'.current_token = tk.current_token
                /\ tk'.in_quotes]_vars

\* a line of balanced quotes gave two tokens, one of them with a space or a
\* "|" that stood inside quotes next to a word character
C9_Witness ==
    /\ ppc = "tokenized"
    /\ ~tk.in_quotes
    /\ Len(tk.tokens) = 2
    /\ \E n \in 1..2 :
          /\ Len(tk.tokens[n]) = 2
          /\ tk.tokens[n][1] = "a"
          /\ tk.tokens[n][2] \in {" ", "|"}

\* the reference definition of variable expansion
ValueOf(name, env) == IF name \in DOMAIN env THEN env[name] ELSE <<>>

IsNameChar(c) == c \in Letters \cup Digits \cup {"_"}

RECURSIVE ExpandRef(_, _)
ExpandRef(token, env) ==
    IF token = <<>> THEN <<>>
    ELSE IF Head(token) # "$" THEN <<Head(token)>> \o ExpandRef(Tail(token), env)
    ELSE LET rest == Tail(token) IN
         IF rest # <<>> /\ Head(rest) = "{"
         THEN LET inner == Tail(rest)
                  closing == {k \in 1..Len(inner) : inner[k] = "}"}
                  k == IF closing = {} THEN Len(inner) + 1 ELSE NthIn(closing, 1)
              IN  ValueOf(SubSeq(inner, 1, k - 1), env)
                      \o ExpandRef(SubSeq(inner, k + 1, Len(inner)), env)
         ELSE LET runs == {m \in 0..Len(rest) : \A j \in 1..m : IsNameChar(rest[j])}
                  n == CHOOSE m \in runs : \A x \in runs : x <= m
              IN  IF n = 0
                  THEN <<"$">> \o ExpandRef(rest, env)
                  ELSE ValueOf(SubSeq(rest, 1, n), env)
                          \o ExpandRef(SubSeq(rest, n + 1, Len(rest)), env)

\* C10: expand_variables gives the reference expansion of every token in
\* every environment.
C10_ExpansionIsReference ==
    ppc = "expanded" => expanded = ExpandRef(call_input, os_env)

\* `${a}$a` with a set to `$a`: both forms were replaced, and the value was
\* not expanded again
C10_Witness ==
    /\ ppc = "expanded"
    /\ call_input = <<"$", "{", "a", "}", "$">>
    /\ <<"a">> \in DOMAIN os_env
    /\ os_env[<<"a">>] = <<"$", "a">>
    /\ expanded = <<"$", "a", "$">>

\* C12: the file name of a redirection is variable-expanded as an argument
\* is: in a Simple or Background result each redirection holds the expansion
\* of the token that follows its operator (with X=out, `cmd > $X.txt` holds
\* out.txt).
C12_FilenamesAreExpanded ==
    (Parsed /\ parse_result.ok /\ parse_result.kind \in {"Simple", "Background"}) =>
        LET b == Body(LineTokens)
            r == parse_result.commands[1].redirections
        IN  \A j \in 1..Len(r) :
                r[j].filename = ExpandRef(b[NthIn(OpPositions(b), j) + 1], os_env)

\* ------------------------------------------- parse and the values of variables
\* values with spaces, quotes and operator characters, and the empty value
ShapeValues ==
    {<<>>, <<"v">>, <<"a", " ", "a">>, <<DQ, "a">>, <<SQ>>, PIPE, AMP, LT, GT, GTGT,
     <<"a", " ", "|", " ", "a">>, <<" ", "&">>, <<">", " ", "a">>}

ShapeEnvs == Envs({<<"a">>}, ShapeValues)

\* the shape of a parse result: its kind or its error, and the number of
\* arguments and the types of the redirections of each of its commands
Shape(r) ==
    [ok |-> r.ok, kind |-> r.kind, err |-> r.err,
     stages |-> [j \in 1..Len(r.commands) |->
                   [nargs |-> Len(r.commands[j].args),
                    redirs |-> [n \in 1..Len(r.commands[j].redirections) |->
                                  r.commands[j].redirections[n].redir_type]]]]

\* C36: the shape of a parse result does not depend on the values of the
\* variables: the result of a line has, under every environment, the same kind
\* or the same error and the same number of stages, arguments and
\* redirections; and a simple command has one argument for each token that is
\* neither a redirection operator nor the filename after one, so that a value
\* with spaces, quotes or operator characters is one argument and never an
\* operator.
C36_ShapeIndependentOfValues ==
    Parsed =>
        /\ \A e \in ShapeEnvs : Shape(parse(call_input, e)) = Shape(parse_result)
        /\ (parse_result.ok /\ parse_result.kind \in {"Simple", "Background"}) =>
              LET c == parse_result.commands[1] IN
                Len(c.args) + 2 * Len(c.redirections) = Len(Body(LineTokens))

\* `$a a &` where a is `" &`: a Background command of two arguments, the
\* first being the whole value
C36_Witness ==
    /\ Parsed
    /\ call_input = <<"$", "a", " ", "a", " ", "&">>
    /\ parse_result.ok
    /\ parse_result.kind = "Background"
    /\ parse_result.commands[1].args = <<<<DQ, " ", "&">>, <<"a">>>>

\* ------------------------------------------------------ pipelines as parsed
IsPipeline == Parsed /\ parse_result.ok /\ parse_result.kind = "Pipeline"

\* C27: variable expansion is applied to every token of a parse result that
\* is not an operator, also in a pipeline: each argument of each stage is the
\* expansion of its token.
C27_PipelineArgsAreExpanded ==
    IsPipeline =>
        \A j \in 1..Len(parse_result.commands) :
            LET g == Group(LineTokens, j)
                a == parse_result.commands[j].args
            IN  /\ Len(a) = Len(g)
                /\ \A n \in 1..Len(g) : a[n] = ExpandRef(g[n], os_env)

\* C28: every stage of every Pipeline has no redirections, also when its
\* tokens hold "<", ">" or ">>": these tokens and the tokens after them stay
\* among the arguments of the stage, at their places, and a line with a "|"
\* never fails with MissingFilename.
C28_StagesHaveNoRedirections ==
    /\ IsPipeline =>
          \A j \in 1..Len(parse_result.commands) :
              LET g == Group(LineTokens, j)
                  a == parse_result.commands[j].args
              IN  /\ parse_result.commands[j].redirections = <<>>
                  /\ Len(a) = Len(g)
                  /\ \A n \in 1..Len(g) :
                        (g[n] \in RedirOps \/ (n > 1 /\ g[n - 1] \in RedirOps))
                            => a[n] = g[n]
    /\ (Parsed /\ PIPE \in Range(Body(LineTokens)))
          => parse_result.err # "MissingFilename"

\* a pipeline whose last stage ends in a redirection operator, kept as its
\* last argument
C28_Witness ==
    /\ IsPipeline
    /\ LET last == parse_result.commands[Len(parse_result.commands)]
       IN  /\ Len(last.args) >= 2
           /\ last.args[Len(last.args)] \in RedirOps
           /\ last.redirections = <<>>

\* the line as it reads without quotes and backslashes
IsPlainChar(c) == c \notin {DQ, SQ, BS}

PlainSpelling(input) == SelectSeq(input, IsPlainChar)

\* the words of a line, which a space ends
RECURSIVE WordsFrom(_, _, _)
WordsFrom(input, i, word) ==
    IF i > Len(input) THEN (IF word = <<>> THEN <<>> ELSE <<word>>)
    ELSE IF input[i] = " "
    THEN (IF word = <<>> THEN <<>> ELSE <<word>>) \o WordsFrom(input, i + 1, <<>>)
    ELSE WordsFrom(input, i + 1, Append(word, input[i]))

PlainWords == WordsFrom(PlainSpelling(call_input), 1, <<>>)

\* C25: parse classifies a token by its text after quotes and backslashes are
\* removed: an operator written in quotes or after a backslash gives the
\* tokens, and the parse result, of the line where it is written plain; so a
\* quoted "|" makes a pipeline, a quoted "&" at the end a background command,
\* and an escaped ">" at the end fails with MissingFilename.
C25_ClassifiedByText ==
    Parsed =>
        /\ LineTokens = PlainWords
        /\ parse_result = parse(PlainSpelling(call_input), os_env)
        /\ LET b == Body(PlainWords) IN
           /\ (PIPE \in Range(b) /\ parse_result.ok) => parse_result.kind = "Pipeline"
           /\ (PIPE \in Range(b) /\ ~parse_result.ok)
                 => parse_result.err = "InvalidSyntax"
           /\ (PIPE \notin Range(b) /\ EndsInAmp(PlainWords) /\ parse_result.ok)
                 => parse_result.kind = "Background"
           /\ (PIPE \notin Range(b) /\ WalkLacksFilename(b))
                 => parse_result = ParseErr("MissingFilename")

\* `a "|" a` is a pipeline of two stages, or `a '&'` a background command, or
\* `a \>` a MissingFilename error
C25_Witness ==
    /\ Parsed
    /\ \/ /\ call_input = <<"a", " ", DQ, "|", DQ, " ", "a">>
          /\ parse_result.kind = "Pipeline"
          /\ Len(parse_result.commands) = 2
       \/ /\ call_input = <<"a", " ", SQ, "&", SQ>>
          /\ parse_result.kind = "Background"
          /\ parse_result.commands[1].args = <<<<"a">>>>
       \/ /\ call_input = <<"a", " ", BS, ">">>
          /\ parse_result = ParseErr("MissingFilename")

\* ------------------------------------------------- quotes and backslashes
\* the characters of all the tokens, in order
RECURSIVE Flatten(_)
Flatten(tokens) ==
    IF tokens = <<>> THEN <<>> ELSE Head(tokens) \o Flatten(Tail(tokens))

IsQuote(c) == c \in QuoteChars

\* the quotes of input[i..] that stand inside a region of the other kind; open
\* is the quote that opened the region at i, or " " outside a region
RECURSIVE QuotesInside(_, _, _)
QuotesInside(input, i, open) ==
    IF i > Len(input) THEN <<>>
    ELSE IF ~IsQuote(input[i]) THEN QuotesInside(input, i + 1, open)
    ELSE IF open = " " THEN QuotesInside(input, i + 1, input[i])
    ELSE IF input[i] = open THEN QuotesInside(input, i + 1, " ")
    ELSE <<input[i]>> \o QuotesInside(input, i + 1, open)

NoBackslash == BS \notin Range(call_input)

\* C24, as stated: for an input without backslash no token returned by
\* tokenize holds a `"` or a `'`, also not a quote of one kind written inside a
\* region of the other kind.
C24_NoQuoteInTokens ==
    (ppc = "tokenized" /\ NoBackslash) =>
        \A n \in 1..Len(tk.tokens) : Range(tk.tokens[n]) \cap QuoteChars = {}

\* C24, amended: for an input without backslash the quotes in the tokens are
\* the quotes written inside a region of the other kind, in their order, and
\* no others: a quote that opens or closes a region is in no token.
C24_OnlyInnerQuotesInTokens ==
    (ppc = "tokenized" /\ NoBackslash) =>
        SelectSeq(Flatten(tk.tokens), IsQuote) = QuotesInside(call_input, 1, " ")

\* `"a'"` gave the one token a' : the double quotes are gone, the single quote
\* inside them is kept
C24_Witness ==
    /\ ppc = "tokenized"
    /\ call_input = <<DQ, "a", SQ, DQ>>
    /\ tk.tokens = <<<<"a", SQ>>>>

\* C26: outside quotes a backslash is dropped and the character after it is
\* appended to the current token, whatever it is: the token is not ended, no
\* operator token is emitted and no region is opened; a backslash at the end
\* of the input is dropped. Inside a region a backslash is appended as it is
\* and the character after it is read on its own, so a closing quote after it
\* closes the region.
C26_BackslashEscapesNext ==
    [][(ppc = "scan" /\ ppc' = "scan") =>
          LET ch == call_input[tk.i] IN
          /\ (ch = BS /\ ~tk.in_quotes /\ tk.i < Len(call_input)) =>
                /\ tk'.tokens = tk.tokens
                /\ tk'.current_token = Append(tk.current_token, call_input[tk.i + 1])
                /\ ~tk'.in_quotes
                /\ tk'.i = tk.i + 2
          /\ (ch = BS /\ ~tk.in_quotes /\ tk.i = Len(call_input)) =>
                /\ tk'.tokens = tk.tokens
                /\ tk'.current_token = tk.current_token
                /\ tk'.i = tk.i + 1
          /\ (ch = BS /\ tk.in_quotes) =>
                /\ tk'.tokens = tk.tokens
                /\ tk'.current_token = Append(tk.current_token, BS)
                /\ tk'.in_quotes
                /\ tk'.quote_char = tk.quote_char
                /\ tk'.i = tk.i + 1
          /\ (tk.in_quotes /\ ch = tk.quote_char
                /\ tk.i > 1 /\ call_input[tk.i - 1] = BS) =>
                /\ ~tk'.in_quotes
                /\ tk'.current_token = tk.current_token]_vars

\* a line of escapes gave one token of a space, a quote, a "|" or a backslash
\* next to a word character; and a region that ends in a backslash was closed
C26_Witness ==
    /\ ppc = "tokenized"
    /\ ~tk.in_quotes
    /\ \/ /\ Len(call_input) = 3
          /\ call_input[2] = BS
          /\ call_input[3] \in {" ", DQ, "|", BS}
          /\ tk.tokens = <<<<"a", call_input[3]>>>>
       \/ /\ call_input = <<DQ, "a", BS, DQ>>
          /\ tk.tokens = <<<<"a", BS>>>>

\* ---------------------------------------------------- quotes and the dollar
\* the words of the line as they are written
WrittenWords == WordsFrom(call_input, 1, <<>>)

\* `$a` in single quotes, in double quotes and after a backslash
ProtectedDollar == {<<SQ, "$", "a", SQ>>, <<DQ, "$", "a", DQ>>, <<BS, "$", "a">>}

\* each argument written `'$a'`, `"$a"` or `\$a` is what `$a` expands to
QuotedExpandsAsPlain ==
    (Parsed /\ parse_result.ok) =>
        LET args == parse_result.commands[1].args IN
          /\ Len(args) = Len(WrittenWords)
          /\ \A n \in 1..Len(args) :
                WrittenWords[n] \in ProtectedDollar \cup {<<"$", "a">>}
                    => args[n] = ValueOf(<<"a">>, os_env)

\* C37, as stated: quotes and backslashes do not keep a `$` from expansion: an
\* argument written `'$a'`, `"$a"` or `\$a` in a simple command is expanded as
\* `$a` is; and no spelling of an argument gives the text `$a` when a is set.
C37_NoSpellingGivesDollarName ==
    /\ QuotedExpandsAsPlain
    /\ (Parsed /\ parse_result.ok /\ <<"a">> \in DOMAIN os_env) =>
          \A n \in 1..Len(parse_result.commands[1].args) :
              parse_result.commands[1].args[n] # <<"$", "a">>

\* C37, amended: an argument written `'$a'`, `"$a"` or `\$a` is expanded as
\* `$a` is; the text `$a` is given by a spelling that parts the `$` from the
\* name by an empty expansion, as `$${}a`, whether a is set or not.
C37_QuotedDollarExpands ==
    /\ QuotedExpandsAsPlain
    /\ (Parsed /\ parse_result.ok) =>
          \A n \in 1..Len(parse_result.commands[1].args) :
              WrittenWords[n] = <<"$", "$", "{", "}", "a">>
                  => parse_result.commands[1].args[n] = <<"$", "a">>

\* `'$a' "$a" \$a $${}a` with a set to v has the arguments v, v, v and $a
C37_Witness ==
    /\ Parsed
    /\ os_env = (<<"a">> :> <<"v">>)
    /\ WrittenWords = <<<<SQ, "$", "a", SQ>>, <<DQ, "$", "a", DQ>>, <<BS, "$", "a">>,
                        <<"$", "$", "{", "}", "a">>>>
    /\ parse_result.ok
    /\ parse_result.commands[1].args = <<<<"v">>, <<"v">>, <<"v">>, <<"$", "a">>>>

\* ------------------------------------------- the environment and its builtins
\* the directory the shell starts in, the home directory, and the directories
\* that exist
StartDir == <<"/", "s">>
HomeDir == <<"/", "h">>
Directories == {<<"/">>, StartDir, HomeDir, HomeDir \o <<"/", "r">>, <<"/", "t">>}

\* the environments a shell can be started in: PWD is set, and PS1, PATH, HOME
\* and X are set or not
StartEnvs ==
    {[n \in S \cup {PWD} |->
        CASE n = PWD -> StartDir
          [] n = PS1 -> <<">">>
          [] n = PATH -> <<"/", "b">>
          [] n = HOME -> HomeDir
          [] OTHER -> <<"w">>] : S \in SUBSET {PS1, PATH, HOME, <<"X">>}}

\* the argument lists given to export, to unset and to cd, and the tokens
\* given to expand_variables
ExportCalls ==
    {<<>>,
     <<<<"X", EQ, "v">>>>, <<<<"X", EQ>>>>, <<<<"X", EQ, EQ, "v">>>>,
     <<<<"X">>>>, <<PS1>>, <<<<"Y">>>>, <<PWD>>,
     <<<<EQ, "v">>>>, <<<<"X", EQ, NUL>>>>,
     <<<<"Y">>, <<"X", EQ, "v">>>>, <<<<"Y">>, PS1>>,
     <<<<EQ, "v">>, <<"X", EQ, "v">>>>}

UnsetCalls ==
    {<<>>, <<<<"X">>>>, <<PS1>>, <<<<"Y">>>>, <<<<"X">>, PS1>>, <<<<"X", EQ, "v">>>>}

CdCalls ==
    {<<>>, <<<<"~">>>>, <<<<"~", "/", "r">>>>, <<<<"/", "t">>>>, <<<<"/", "n">>>>}

EnvTokens ==
    {<<"$">> \o n : n \in {<<"X">>, PS1, PATH, PWD}}
    \cup {<<"$", "{">> \o n \o <<"}">> : n \in {<<"X">>, PS1}}

EnvInit ==
    /\ ShellIdle
    /\ os_env \in StartEnvs
    /\ env_vars = new_env_vars(os_env)
    /\ cwd = StartDir
    /\ last_call = NoCall
    /\ ncalls = 0
    /\ call_input = <<>>
    /\ ppc = "ready"
    /\ tk = TokInit
    /\ parse_result = ParseErr("-")
    /\ expanded = <<>>

CallRecord(op, args, st) ==
    [op |-> op, args |-> args,
     result |-> IF st.panicked THEN "Panic" ELSE "Ok", stderr |-> st.stderr]

\* a line `export args`
Export ==
    /\ ppc = "ready"
    /\ ncalls < MaxCalls
    /\ \E args \in ExportCalls :
         LET st == export(args, EnvState(env_vars, os_env, <<>>, FALSE)) IN
           /\ env_vars' = st.env_vars
           /\ os_env' = st.os_env
           /\ last_call' = CallRecord("export", args, st)
           /\ ppc' = IF st.panicked THEN "panicked" ELSE "ready"
    /\ ncalls' = ncalls + 1
    /\ UNCHANGED <<shellVars, osVars, logVars, last_exec, pl>>
    /\ UNCHANGED <<cwd, call_input, tk, parse_result, expanded>>

\* a line `unset args`
Unset ==
    /\ ppc = "ready"
    /\ ncalls < MaxCalls
    /\ \E args \in UnsetCalls :
         LET st == unset(args, EnvState(env_vars, os_env, <<>>, FALSE)) IN
           /\ env_vars' = st.env_vars
           /\ os_env' = st.os_env
           /\ last_call' = CallRecord("unset", args, st)
           /\ ppc' = IF st.panicked THEN "panicked" ELSE "ready"
    /\ ncalls' = ncalls + 1
    /\ UNCHANGED <<shellVars, osVars, logVars, last_exec, pl>>
    /\ UNCHANGED <<cwd, call_input, tk, parse_result, expanded>>

\* a line `cd args`: Shell::change_directory; env::set_current_dir succeeds on
\* a directory that exists, and only then is PWD written, to the map
Cd ==
    /\ ppc = "ready"
    /\ ncalls < MaxCalls
    /\ \E args \in CdCalls :
         LET d == new_dir(cd_path(args), os_env) IN
           IF d \in Directories
           THEN /\ cwd' = d
                /\ env_vars' = set_env_var(env_vars, PWD, d)
                /\ last_call' = [op |-> "cd", args |-> args, result |-> "Ok",
                                 stderr |-> <<>>]
           ELSE /\ UNCHANGED <<cwd, env_vars>>
                /\ last_call' = [op |-> "cd", args |-> args, result |-> "Err",
                                 stderr |-> <<>>]
    /\ ncalls' = ncalls + 1
    /\ UNCHANGED <<shellVars, osVars, logVars, last_exec, pl>>
    /\ UNCHANGED <<os_env, call_input, ppc, tk, parse_result, expanded>>

\* the parser expands an argument of a line
ExpandArg ==
    /\ ppc = "ready"
    /\ ncalls < MaxCalls
    /\ \E token \in EnvTokens :
         /\ call_input' = token
         /\ expanded' = expand_variables(token, os_env)
         /\ last_call' = [op |-> "expand", args |-> <<token>>, result |-> "Ok",
                          stderr |-> <<>>]
    /\ ncalls' = ncalls + 1
    /\ UNCHANGED <<shellVars, osVars, logVars, last_exec, pl>>
    /\ UNCHANGED <<env_vars, cwd, os_env, ppc, tk, parse_result>>

EnvNext == Export \/ Unset \/ Cd \/ ExpandArg

SpecEnv == EnvInit /\ [][EnvNext]_vars

\* a step that is a call of op
CallOf(op) == ncalls' = ncalls + 1 /\ last_call'.op = op

\* the name a token `$NAME` or `${NAME}` refers to
RefName(token) ==
    IF Len(token) >= 2 /\ token[2] = "{"
    THEN SubSeq(token, 3, Len(token) - 1)
    ELSE Tail(token)

\* C11: a variable reference is resolved against the environment map of the
\* shell: whatever start-up, export, unset and cd did before, expanding `$NAME`
\* or `${NAME}` gives the value the map holds for NAME, and nothing when the
\* map does not hold NAME.
C11_ExpansionReadsShellMap ==
    [][CallOf("expand") =>
          expanded' = ValueOf(RefName(call_input'), env_vars')]_vars

\* m2 is m but for what it holds for name
SameBut(m2, m, name) ==
    /\ DOMAIN m2 \ {name} = DOMAIN m \ {name}
    /\ \A n \in DOMAIN m \ {name} : m2[n] = m[n]

Holds(m, name, value) == name \in DOMAIN m /\ m[name] = value

\* the ways to read arg as N=V with no "=" in N
NameValue(arg) ==
    {nv \in {<<SubSeq(arg, 1, k - 1), SubSeq(arg, k + 1, Len(arg))>> : k \in 1..Len(arg)} :
        /\ arg = nv[1] \o <<EQ>> \o nv[2]
        /\ EQ \notin Range(nv[1])}

\* a step `export N=V`, and a step `unset N`
ExportOf(N, V) ==
    CallOf("export") /\ last_call'.args = <<N \o <<EQ>> \o V>>

UnsetOf(N) == CallOf("unset") /\ last_call'.args = <<N>>

WellFormedName(N) == N # <<>> /\ EQ \notin Range(N)

NamesOnly(args) == \A i \in 1..Len(args) : EQ \notin Range(args[i])

\* C14: `export` with arguments that hold no "=": each argument that the map
\* holds is given to the process environment with the value of the map, each
\* other one is reported as not found and changes neither store; the map does
\* not change, the call returns Ok, and an argument that is not found does not
\* keep the ones after it from being processed.
C14_ExportNamePromotes ==
    [][(CallOf("export") /\ NamesOnly(last_call'.args)) =>
          LET args == last_call'.args
              found == Range(args) \cap DOMAIN env_vars IN
            /\ env_vars' = env_vars
            /\ DOMAIN os_env' = DOMAIN os_env \cup found
            /\ \A n \in DOMAIN os_env' :
                  os_env'[n] = IF n \in found THEN env_vars[n] ELSE os_env[n]
            /\ last_call'.stderr = SelectSeq(args, LAMBDA a : a \notin DOMAIN env_vars)
            /\ last_call'.result = "Ok"]_vars

\* `export Y PS1` has reported Y and then given the process the PS1 that only
\* the map held
C14_Witness ==
    /\ last_call.op = "export"
    /\ last_call.args = <<<<"Y">>, PS1>>
    /\ last_call.stderr = <<<<"Y">>>>
    /\ Holds(os_env, PS1, DefaultPS1)
    /\ Holds(env_vars, PS1, DefaultPS1)

\* what HOME stands for in a `cd`: its value, and "/" when it is not set
HomeOf(env) == IF HOME \in DOMAIN env THEN env[HOME] ELSE <<"/">>

\* the directories the forms of the argument of `cd` name
Resolved(args, env) ==
    {d \in Directories \cup {HomeOf(env)} \cup Range(args) :
        \/ (args = <<>> \/ args[1] \in {<<>>, <<"~">>}) /\ d = HomeOf(env)
        \/ /\ args # <<>>
           /\ \E rest \in {SubSeq(args[1], k, Len(args[1])) : k \in 1..(Len(args[1]) + 1)} :
                 args[1] = <<"~", "/">> \o rest /\ d = HomeOf(env) \o <<"/">> \o rest
        \/ /\ args # <<>> /\ args[1] \notin {<<>>, <<"~">>}
           /\ ~(Len(args[1]) >= 2 /\ args[1][1] = "~" /\ args[1][2] = "/")
           /\ d = args[1]}

\* C32: a `cd` whose target is not a directory returns an error and leaves the
\* working directory and the whole map, PWD included, as they were, and the
\* shell goes on; a `cd` whose target is a directory makes it the working
\* directory and writes it, and nothing else, to PWD in the map.  The target
\* is HOME for no argument or `~`, HOME followed by `/rest` for `~/rest`, and
\* the argument otherwise, where HOME is "/" when it is not set.  Neither
\* writes the process environment.
C32_CdWritesPwdOnlyOnSuccess ==
    [][CallOf("cd") =>
          LET targets == Resolved(last_call'.args, env_vars) IN
            /\ os_env' = os_env
            /\ ppc' = "ready"
            /\ \/ /\ targets \cap Directories = {}
                  /\ last_call'.result = "Err"
                  /\ cwd' = cwd
                  /\ env_vars' = env_vars
               \/ /\ last_call'.result = "Ok"
                  /\ cwd' \in targets \cap Directories
                  /\ Holds(env_vars', PWD, cwd')
                  /\ SameBut(env_vars', env_vars, PWD)]_vars

\* `cd ~/r` has written /h/r to PWD, and then `cd /n` has failed and left it
C32_Witness ==
    /\ last_call.op = "cd"
    /\ last_call.args = <<<<"/", "n">>>>
    /\ last_call.result = "Err"
    /\ cwd = HomeDir \o <<"/", "r">>
    /\ Holds(env_vars, PWD, HomeDir \o <<"/", "r">>)
    /\ Holds(os_env, PWD, StartDir)

\* C34: display ids tell the jobs of the table apart: no two jobs that are
\* both in the table were announced, in their "[id] pid" line, with the same
\* display id, whatever spawns, terminations and polls came before.
C34_DisplayIdsIdentifyJobs ==
    \A i, j \in 1..Len(background_jobs) :
        background_jobs[i].display_id = background_jobs[j].display_id => i = j

C39_ExportUnsetAlwaysReturn ==
    [][(CallOf("export") \/ CallOf("unset")) =>
          /\ last_call'.result \in {"Ok", "Err"}
          /\ ppc' = "ready"]_vars

\* ------------------------------------------- execute_simple_command alone
\* the commands given to execute_simple_command: builtins and programs, in the
\* foreground and in the background, with redirections
RedirLists ==
    {<<>>, <<"Input">>, <<"Output", "Input">>, <<"Input", "Append">>,
     <<"Input", "Input">>, <<"Output", "Append">>, <<"Append", "Output", "Input">>}

ExecLines ==
    [parse : {"Simple", "Background"}, name : {"cd", "echo"}, arg : {"none"},
     redirs : {<<>>, <<"Output">>}]
    \cup [parse : {"Simple", "Background"}, name : {"exit"}, arg : {"none", "1"},
          redirs : {<<>>}]
    \cup [parse : {"Simple", "Background"}, name : {"export"}, arg : ExportArgs,
          redirs : {<<>>}]
    \cup [parse : {"Simple", "Background"}, name : {"ext", "CD"}, arg : {"none"},
          redirs : RedirLists]

\* the answers of the operating system that a command can meet
OsAnswers(line) ==
    IF builtin_handler(line.name) = "cd"
    THEN {OsAnswer(0, TRUE, TRUE, "0", ok) : ok \in BOOLEAN}
    ELSE IF builtin_handler(line.name) # "none"
    THEN {NoOs}
    ELSE {OsAnswer(f, sp, w, st, TRUE) :
            f \in 0..Len(line.redirs), sp \in BOOLEAN, w \in BOOLEAN,
            st \in {"0", "1", "signal"}}

\* a shell with some background jobs, running or ended, that were announced
ExecInit ==
    /\ ParserIdle
    /\ BuiltinIdle
    /\ mode = "none"
    /\ pc = "exec"
    /\ ret = "-"
    /\ exit_requested = FALSE
    /\ \E k \in 0..(MaxJobs - 1) :
         /\ background_jobs = [i \in 1..k |-> [pid |-> i, display_id |-> i]]
         /\ announced = [i \in 1..k |-> [display_id |-> i, pid |-> i]]
         /\ procs \in [Pids -> {"none", "running", "exited"}]
         /\ \A p \in Pids : procs[p] = "none" <=> p > k
    /\ done_printed = [p \in Pids |-> 0]
    /\ try_wait_err = {}
    /\ kill_called = {}
    /\ wait_called = {}
    /\ last_line = NoLine
    /\ ExecIdle

\* one call of Shell::execute_simple_command, up to its return
ExecuteSimple ==
    /\ pc = "exec"
    /\ \E line \in ExecLines : \E os \in OsAnswers(line) :
         /\ execute_line(line, os_calls_succeed(line, os))
         /\ last_exec' = exec_record(line, os)
         /\ pc' = IF exec_record(line, os).result \in {"Exit", "Panic"}
                  THEN "gone" ELSE "returned"
    /\ UNCHANGED <<mode, ret, last_line, parserVars, builtinVars, pl>>

SpecExec == ExecInit /\ [][ExecuteSimple]_vars

\* the command of the last call, and whether it was given in the background
Cmd == last_exec'.line

InBackground == last_exec'.line.parse = "Background"

\* the table of jobs and what was printed about jobs are as before
NoJobChange ==
    /\ background_jobs' = background_jobs
    /\ announced' = announced
    /\ procs' = procs

\* what the handler of a builtin returns
HandlerResult ==
    CASE Cmd.name = "exit" -> IF Cmd.arg = "none" THEN "Ok" ELSE "Exit"
      [] Cmd.name = "cd" -> IF last_exec'.os.chdir_ok THEN "Ok" ELSE "Err"
      [] Cmd.name = "export" -> IF Cmd.arg = "=v" THEN "Panic" ELSE "Ok"
      [] OTHER -> "Ok"

TheBuiltins ==
    {"exit", "cd", "pwd", "echo", "export", "unset", "env", "type", "help", "history"}

\* C17: a Simple or Background command whose args[0] is the name of a builtin
\* runs the handler of that builtin, at once, and its result is the result of
\* the handler; no process is started, the job table does not change and no
\* "[id] pid" line is printed, in the background as in the foreground. A
\* command with another args[0] runs no handler.
C17_BuiltinsRunInProcess ==
    [][IF Cmd.name \in TheBuiltins
       THEN /\ last_exec'.handler = Cmd.name
            /\ last_exec'.result = HandlerResult
            /\ last_exec'.child = "none"
            /\ NoJobChange
       ELSE /\ last_exec'.handler = "none"
            /\ exit_requested' = exit_requested]_vars

\* `cd &` has run cd and returned Ok, beside a table of jobs that it left as
\* it was
C17_Witness ==
    /\ last_exec.line.parse = "Background"
    /\ last_exec.line.name = "cd"
    /\ last_exec.handler = "cd"
    /\ last_exec.result = "Ok"
    /\ Len(background_jobs) = 1
    /\ announced = <<[display_id |-> 1, pid |-> 1]>>

\* C18: a Background command with an external program whose files open: when
\* the program starts, one job is appended to the end of the table and the
\* other jobs stay, one line "[display_id] pid" is printed, the call returns
\* Ok without a wait, and the child reads the null device, also with Input
\* redirections; when the program does not start, the call returns an error,
\* prints nothing and leaves the table as it was.
C18_BackgroundSpawn ==
    [][(InBackground /\ Cmd.name \notin TheBuiltins /\ last_exec'.os.open_fail = 0) =>
          IF last_exec'.os.spawn_ok
          THEN \E p \in Pids :
                 /\ procs[p] = "none"
                 /\ procs' = [procs EXCEPT ![p] = "running"]
                 /\ Len(background_jobs') = Len(background_jobs) + 1
                 /\ SubSeq(background_jobs', 1, Len(background_jobs)) = background_jobs
                 /\ background_jobs'[Len(background_jobs')].pid = p
                 /\ announced' = Append(announced,
                       [display_id |-> Len(background_jobs) + 1, pid |-> p])
                 /\ last_exec'.result = "Ok"
                 /\ last_exec'.child = "unwaited"
                 /\ last_exec'.child_stdin = "null"
          ELSE /\ last_exec'.result = "Err"
               /\ NoJobChange]_vars

\* a program was started in the background with an Input redirection beside
\* two jobs, and reads the null device
C18_Witness ==
    /\ last_exec.line.parse = "Background"
    /\ last_exec.line.name = "ext"
    /\ "Input" \in Range(last_exec.line.redirs)
    /\ last_exec.result = "Ok"
    /\ last_exec.child_stdin = "null"
    /\ Len(background_jobs) = 3
    /\ Len(announced) = 3

InForeground == last_exec'.line.parse = "Simple"

\* C19, as stated: a Simple command with an external program returns Ok
\* whatever the exit status of the child, also when a signal killed it; it
\* returns an error only when a redirection file cannot be opened or the
\* program cannot be started; it returns only after the child has exited.
C19_ForegroundOkUnlessNotStarted ==
    [][(InForeground /\ Cmd.name \notin TheBuiltins) =>
          /\ last_exec'.result \in {"Ok", "Err"}
          /\ last_exec'.result = "Err" <=>
                (last_exec'.os.open_fail # 0 \/ ~last_exec'.os.spawn_ok)
          /\ last_exec'.result = "Ok" => last_exec'.child = "reaped"
          /\ NoJobChange]_vars

\* C19, amended: it returns an error only when a redirection file cannot be
\* opened, the program cannot be started, or the wait for the child fails;
\* when it returns Ok the child has exited and was waited on.
C19_ForegroundOkUnlessNotWaited ==
    [][(InForeground /\ Cmd.name \notin TheBuiltins) =>
          /\ last_exec'.result \in {"Ok", "Err"}
          /\ last_exec'.result = "Err" <=>
                \/ last_exec'.os.open_fail # 0
                \/ ~last_exec'.os.spawn_ok
                \/ ~last_exec'.os.wait_ok
          /\ last_exec'.result = "Ok" => last_exec'.child = "reaped"
          /\ NoJobChange]_vars

\* a program in the foreground was killed by a signal, and the call returned
\* Ok after the wait
C19_Witness ==
    /\ last_exec.line.parse = "Simple"
    /\ last_exec.line.name = "ext"
    /\ last_exec.os.status = "signal"
    /\ last_exec.result = "Ok"
    /\ last_exec.child = "reaped"

\* the redirections of the command of the last call, and a command that was
\* started
Redirs == last_exec'.line.redirs

Started ==
    /\ Cmd.name \notin TheBuiltins
    /\ last_exec'.os.open_fail = 0
    /\ last_exec'.os.spawn_ok

\* the greatest place of the list that holds one of the types, 0 for none
LastPlace(types) ==
    IF \E i \in 1..Len(Redirs) : Redirs[i] \in types
    THEN CHOOSE i \in 1..Len(Redirs) :
            /\ Redirs[i] \in types
            /\ \A k \in (i + 1)..Len(Redirs) : Redirs[k] \notin types
    ELSE 0

HowOpened(type) ==
    CASE type = "Input" -> "read"
      [] type = "Output" -> "truncate"
      [] type = "Append" -> "append"

AllOpenedInOrder ==
    /\ Len(last_exec'.opened) = Len(Redirs)
    /\ \A i \in 1..Len(Redirs) :
          last_exec'.opened[i] = [redir |-> i, how |-> HowOpened(Redirs[i])]

StdoutIsLast == last_exec'.stdout_to = LastPlace({"Output", "Append"})

StdinIsLast ==
    IF LastPlace({"Input"}) = 0
    THEN last_exec'.child_stdin = "inherit"
    ELSE last_exec'.child_stdin = "file" /\ last_exec'.stdin_from = LastPlace({"Input"})

\* C30, as stated: the redirections of an external simple command are applied
\* in the order of the list, and the last of a stream wins: the stdin of the
\* child is the file of the last Input redirection, its stdout the file of the
\* last Output or Append redirection, a stream without redirection is
\* inherited; every file of the list is opened, in order, so that the file of
\* an Output is truncated also when a later redirection takes its place.
C30_LastRedirectionWins ==
    [][Started => (StdinIsLast /\ StdoutIsLast /\ AllOpenedInOrder)]_vars

\* C30, amended: the same for a command in the foreground; the stdin of a
\* command in the background is the null device whatever its Input
\* redirections, whose files are opened all the same; and the files are
\* opened up to the first that cannot be: the files before it are opened, the
\* files after it are not, and no process is started.
C30_LastRedirectionWinsInForeground ==
    [][/\ (Started /\ InForeground) => (StdinIsLast /\ StdoutIsLast /\ AllOpenedInOrder)
       /\ (Started /\ InBackground) =>
             /\ last_exec'.child_stdin = "null"
             /\ StdoutIsLast
             /\ AllOpenedInOrder
       /\ (Cmd.name \notin TheBuiltins /\ last_exec'.os.open_fail # 0) =>
             /\ Len(last_exec'.opened) = last_exec'.os.open_fail - 1
             /\ \A i \in 1..Len(last_exec'.opened) :
                   last_exec'.opened[i] = [redir |-> i, how |-> HowOpened(Redirs[i])]
             /\ last_exec'.child = "none"
             /\ last_exec'.result = "Err"]_vars

\* `ext >> f1 > f2 < f3` was run in the foreground: the child writes to the
\* second file and reads the third, and all three were opened
C30_Witness ==
    /\ last_exec.line.parse = "Simple"
    /\ last_exec.line.redirs = <<"Append", "Output", "Input">>
    /\ last_exec.child = "reaped"
    /\ last_exec.stdout_to = 2
    /\ last_exec.stdin_from = 3
    /\ Len(last_exec.opened) = 3

\* the file of a redirection of the command could not be opened
OpenFailed == Cmd.name \notin TheBuiltins /\ last_exec'.os.open_fail # 0

\* the places of the list whose files were opened
OpenedPlaces == {last_exec'.opened[i].redir : i \in 1..Len(last_exec'.opened)}

\* C33: when the file of a redirection of an external command, simple or in
\* the background, cannot be opened, the call returns an error: no process is
\* started, no "[id] pid" line is printed, the job table and the exit flag are
\* as before, and the shell goes on. The redirections before the failing one
\* have been applied to the file system, so that the file of an earlier Output
\* is created or truncated; the failing one and those after it have not.
C33_OpenFailureStartsNothing ==
    [][OpenFailed =>
          /\ last_exec'.result = "Err"
          /\ last_exec'.child = "none"
          /\ last_exec'.stdout_to = 0
          /\ NoJobChange
          /\ exit_requested' = exit_requested
          /\ pc' = "returned"
          /\ OpenedPlaces = 1..(last_exec'.os.open_fail - 1)
          /\ \A i \in 1..(last_exec'.os.open_fail - 1) :
                Redirs[i] = "Output" =>
                   \E k \in 1..Len(last_exec'.opened) :
                      last_exec'.opened[k] = [redir |-> i, how |-> "truncate"]]_vars

\* `ext > f1 < f2 &` beside a job: f2 could not be opened, f1 is truncated, no
\* process was started and the table holds the one job it held
C33_Witness ==
    /\ last_exec.line.parse = "Background"
    /\ last_exec.line.redirs = <<"Output", "Input">>
    /\ last_exec.os.open_fail = 2
    /\ last_exec.os.spawn_ok
    /\ last_exec.result = "Err"
    /\ last_exec.opened = <<[redir |-> 1, how |-> "truncate"]>>
    /\ Len(background_jobs) = 1
    /\ Len(announced) = 1
    /\ pc = "returned"

\* C38: the redirections of a builtin are not applied: a Simple or Background
\* command whose args[0] names a builtin opens, creates and truncates none of
\* the files of its redirections, starts no process whose stdout could be a
\* file, and the builtin writes to the stdout of the shell.
C38_BuiltinRedirectionsNotApplied ==
    [][(pc = "exec" /\ pc' # "exec" /\ Cmd.name \in TheBuiltins) =>
          /\ last_exec'.handler = Cmd.name
          /\ last_exec'.opened = <<>>
          /\ last_exec'.stdout_to = 0
          /\ last_exec'.stdin_from = 0
          /\ last_exec'.child = "none"]_vars

\* `echo > f` has run echo and opened no file
C38_Witness ==
    /\ last_exec.line.name = "echo"
    /\ last_exec.line.redirs = <<"Output">>
    /\ last_exec.handler = "echo"
    /\ last_exec.result = "Ok"
    /\ last_exec.opened = <<>>
    /\ pc = "returned"

\* --------------------------------------------------- execute_pipeline alone
\* the names of the stages: programs, and names of builtins
StageNames == {"ext", "cd", "exit"}

\* the pipelines parse can return: two stages or more
Pipelines == UNION {[1..n -> StageNames] : n \in 2..MaxJobs}

\* a shell with some background jobs that is given a pipeline
PipeInit ==
    /\ ParserIdle
    /\ mode = "none"
    /\ pc = "pipeline"
    /\ ret = "-"
    /\ exit_requested = FALSE
    /\ env_vars = new_env_vars(<<>>)
    /\ cwd = StartDir
    /\ last_call = NoCall
    /\ ncalls = 0
    /\ \E cmds \in Pipelines : \E k \in 0..(MaxJobs - Len(cmds)) :
         /\ pl = [NoPipeline EXCEPT !.commands = cmds, !.phase = "spawn"]
         /\ background_jobs = [i \in 1..k |-> [pid |-> i, display_id |-> i]]
         /\ announced = [i \in 1..k |-> [display_id |-> i, pid |-> i]]
         /\ procs = [p \in Pids |-> IF p <= k THEN "running" ELSE "none"]
    /\ done_printed = [p \in Pids |-> 0]
    /\ try_wait_err = {}
    /\ kill_called = {}
    /\ wait_called = {}
    /\ last_line = NoLine
    /\ last_exec = NoExec

PipeSpawn ==
    /\ pc = "pipeline"
    /\ pl.phase = "spawn"
    /\ \E ok \in BOOLEAN : pipeline_spawn(ok)
    /\ UNCHANGED <<mode, pc, ret, background_jobs>>
    /\ UNCHANGED <<done_printed, try_wait_err, kill_called, wait_called>>
    /\ UNCHANGED <<parserVars, env_vars, last_call, ncalls, logVars, last_exec>>

PipeWait ==
    /\ pc = "pipeline"
    /\ pl.phase = "wait"
    /\ \E ok \in BOOLEAN : \E status \in {"0", "1", "signal"} : pipeline_wait(ok, status)
    /\ UNCHANGED <<shellVars, done_printed, try_wait_err, kill_called>>
    /\ UNCHANGED <<parserVars, builtinVars, logVars, last_exec>>

PipeNext == PipeSpawn \/ PipeWait \/ JobTerminates

SpecPipe == PipeInit /\ [][PipeNext]_vars

\* execute_pipeline has returned; the processes it started; all its stages
\* were started
PipeReturned == pl.phase = "returned"

EventsOf(op) == SelectSeq(pl.events, LAMBDA ev : ev.op = op)

SpawnedPids == {pl.events[x].pid : x \in {y \in 1..Len(pl.events) : pl.events[y].op = "spawn"}}

AllSpawned == Len(EventsOf("spawn")) = Len(pl.commands)

\* C21: when execute returns, every child it has started was waited on or is
\* in the job table: when a stage after the first cannot be started, or a
\* wait returns an error, the stages started before are waited on all the same.
C21_NoChildDroppedUnreaped ==
    PipeReturned =>
        \A p \in SpawnedPids : procs[p] = "reaped" \/ p \in JobPids(background_jobs)

\* C22: when all n stages start, the n spawns come first, in the order of the
\* stages, then the n waits, in the same order; execute_pipeline returns
\* after all n children have exited, and returns Ok whatever their statuses.
C22_SpawnAllThenWaitAll ==
    LET n == Len(pl.commands) IN
    /\ \A x \in 1..Len(pl.events) :
          /\ x <= n => (pl.events[x].op = "spawn" /\ pl.events[x].stage = x - 1)
          /\ x > n => /\ pl.events[x].op = "wait"
                      /\ pl.events[x].stage = x - n - 1
                      /\ pl.events[x].pid = pl.events[x - n].pid
    /\ (PipeReturned /\ AllSpawned) =>
          /\ pl.result = "Ok"
          /\ Len(pl.events) = 2 * n
          /\ \A p \in SpawnedPids : procs[p] = "reaped"

\* C29: executing a Pipeline runs no builtin handler, also for a stage whose
\* args[0] is the name of a builtin: execute_pipeline starts a process for
\* every stage and leaves the environment map, the exit flag, the working
\* directory and the job table as they were.
C29_PipelineRunsNoBuiltin ==
    [][pl' # pl =>
          /\ UNCHANGED <<env_vars, exit_requested, cwd, background_jobs, announced>>
          /\ (pl.phase = "spawn" /\ pl'.phase # "returned") =>
                /\ Len(pl'.children) = Len(pl.children) + 1
                /\ procs[pl'.children[Len(pl'.children)].pid] = "none"
                /\ procs'[pl'.children[Len(pl'.children)].pid] = "running"]_vars

\* `cd | exit` has run beside a background job: two processes were started
\* and waited for, the exit flag is not set, the directory and the job table
\* are as before
C29_Witness ==
    /\ PipeReturned
    /\ pl.commands = <<"cd", "exit">>
    /\ pl.result = "Ok"
    /\ Len(EventsOf("spawn")) = 2
    /\ ~exit_requested
    /\ cwd = StartDir
    /\ Len(background_jobs) = 1

\* a step that starts stage pl.i, the child it starts, and the number of stages
SpawnsStage == pl.phase = "spawn" /\ Len(pl'.children) = Len(pl.children) + 1

NewChild == pl'.children[Len(pl'.children)]

NStages == Len(pl.commands)

\* C31: in a pipeline of n >= 2 stages the stdin of stage 0 is the stdin of
\* the shell, the stdout of stage n-1 is the stdout of the shell, and the stdin
\* of every stage i >= 1 is the read end of the pipe that is the stdout of
\* stage i-1; the shell holds the read end of one pipe at most, that of the
\* stage it started last, and none after the last stage; previous_stdout is
\* present whenever a stage i >= 1 is set up, so the unwrap never panics.
C31_PipelineWiring ==
    [][/\ pl'.phase # "panicked"
       /\ SpawnsStage =>
            /\ pl.i = 0 => NewChild.stdin = [kind |-> "inherit", of |-> 0]
            /\ pl.i >= 1 =>
                  /\ NewChild.stdin = [kind |-> "pipe", of |-> pl.i - 1]
                  /\ pl.children[pl.i].stdout = "piped"
                  /\ pl.previous_stdout = NewChild.stdin
            /\ pl.i = NStages - 1 =>
                  /\ NewChild.stdout = "inherit"
                  /\ pl'.previous_stdout.kind = "None"
            /\ pl.i < NStages - 1 =>
                  /\ NewChild.stdout = "piped"
                  /\ pl'.previous_stdout = [kind |-> "pipe", of |-> pl.i]
            /\ \A x \in 1..Len(pl.children) : pl'.children[x] = pl.children[x]
       /\ pl'.phase \in {"wait", "returned"} => pl'.previous_stdout.kind = "None"]_vars

\* three stages were started: the first reads what the shell reads, the second
\* the pipe of the first, the third the pipe of the second and writes where
\* the shell writes
C31_Witness ==
    /\ pl.phase = "wait"
    /\ Len(pl.children) = 3
    /\ pl.children[1].stdin.kind = "inherit"
    /\ pl.children[1].stdout = "piped"
    /\ pl.children[2].stdin = [kind |-> "pipe", of |-> 0]
    /\ pl.children[3].stdin = [kind |-> "pipe", of |-> 1]
    /\ pl.children[3].stdout = "inherit"

====
